---- MODULE Spec2Model ----
(***************************************************************************)
(* BigFlix: availability aggregation over media servers and download      *)
(* managers (backend/src/routes/search.js), with the server registry and  *)
(* the tracked-item table it reads.                                        *)
(*                                                                         *)
(* One search request is in progress at a time; its movie loop and its    *)
(* series loop interleave at their await points.  Remote services are     *)
(* the environment: every remote exchange either fails (error or          *)
(* timeout) or answers with some document.                                 *)
(***************************************************************************)
EXTENDS Integers, Sequences, FiniteSets, TLC

\* ---------------------------------------------------------------- bounds
MaxBatch == 2
MaxFanout == 2
MaxCached == 1
MaxTracked == 1
MaxTicks == 2
MaxAdminOps == 1
MaxLookups == 2

MaxHandlers == 1
MaxRequests == 2

\* moderation: handlers in progress at once, requests received
MaxOverlap == 2
MaxCalls == 3

\* checker calls made outside a search
MaxRuns == 3

\* requests received about one catalog item
MaxSteps == 4

\* ------------------------------------------------------------- constants
NULL == "null"

CACHE_TTL == 5 * 60 * 1000

Servers == {"s1", "s2"}
Kinds == {"movie", "tv"}

\* plex_servers.name of the two registrable servers
ServerName(s) == IF s = "s1" THEN "Home" ELSE "Office"

\* a missing release_date / first_air_date
NoDate == <<>>

\* a missing or non-numeric number (undefined, NaN)
NoNumber == -1

\* Catalog provider results (TMDB): movie.title / show.name is `title',
\* movie.release_date / show.first_air_date is `release_date', given as the
\* list of its '-' separated parts (NoDate when the field is missing).
Catalog ==
  { [media_type |-> "movie", id |-> 603, title |-> "The Matrix",
     release_date |-> <<"1999", "03", "31">>],
    [media_type |-> "movie", id |-> 604, title |-> "Heat",
     release_date |-> <<"">>],
    [media_type |-> "tv", id |-> 603, title |-> "Lost",
     release_date |-> NoDate] }

\* release_date?.split('-')[0]
YearPart(release_date) ==
  IF release_date = NoDate THEN NULL ELSE Head(release_date)

\* parseInt on the year strings of the catalog
ParseInt(str) ==
  CASE str = "1999" -> 1999
    [] str = "2004" -> 2004
    [] OTHER -> NoNumber

\* String.prototype.toLowerCase on the titles in play
ToLowerCase(t) ==
  CASE t = "The Matrix" -> "the matrix"
    [] t = "THE MATRIX" -> "the matrix"
    [] t = "Heat" -> "heat"
    [] t = "Lost" -> "lost"
    [] t = "LOST" -> "lost"
    [] OTHER -> t

\* `${x}` of a possibly undefined string
Str(x) == IF x = NULL THEN "undefined" ELSE x

\* ------------------------------------------------------------ cache keys
PlexKey(kind, serverId, title, year) ==
  <<"plex_" \o kind, serverId, title, Str(year)>>

RadarrKey(serverId, tmdbId) == <<"radarr", serverId, ToString(tmdbId), "">>

SonarrKey(serverId, tmdbId) == <<"sonarr", serverId, ToString(tmdbId), "">>

\* --------------------------------------------------- remote answer space
\* Metadata records a media server may list in a section
LibraryRecords ==
  { [title |-> "THE MATRIX", year |-> 1999],
    [title |-> "The Matrix", year |-> 2003],
    [title |-> "The Matrix", year |-> NoNumber],
    [title |-> "Heat", year |-> 1995],
    [title |-> "LOST", year |-> 2004] }

\* One Metadata list per section of the wanted type, in section order
PlexAnswers ==
  {<<>>, <<{}>>} \cup { <<{r}>> : r \in LibraryRecords }
    \cup { <<{}, {r}>> : r \in LibraryRecords }

\* How the remote calls of a library check end: with an error or a timeout,
\* or with the sections' lists
PlexOutcomes ==
  {[ok |-> FALSE, sections |-> <<>>]}
    \cup { [ok |-> TRUE, sections |-> a] : a \in PlexAnswers }

RadarrMovies ==
  [tmdbId : {603, 604}, id : {1}, hasFile : BOOLEAN, monitored : BOOLEAN,
   status : {"released", "announced"}]

\* GET /api/v3/movie and GET /api/v3/queue (records may be missing)
RadarrAnswers ==
  [movies : {{}} \cup { {m} : m \in RadarrMovies },
   queue : { [hasRecords |-> FALSE, records |-> {}],
             [hasRecords |-> TRUE, records |-> {}],
             [hasRecords |-> TRUE, records |-> {1}] }]

NoAnswer == [movies |-> {}, queue |-> [hasRecords |-> FALSE, records |-> {}]]

\* How the remote calls of a manager check end
ArrOutcomes ==
  {[ok |-> FALSE, answer |-> NoAnswer]}
    \cup { [ok |-> TRUE, answer |-> a] : a \in RadarrAnswers }

\* GET /api/v3/series: the series the series manager tracks
SonarrSeries ==
  [title : {"Lost"}, tvdbId : {73739}, monitored : BOOLEAN,
   percentOfEpisodes : {0, 100}]

SonarrAnswers == {{}} \cup { {x} : x \in SonarrSeries }

VARIABLES
  now,           \* Date.now()
  ticks,         \* number of clock advances so far
  plex_servers,  \* table plex_servers: rows (id, radarr, sonarr)
  rss_items,     \* table rss_items, rows (id, server_id, content_type, tmdb_id)
  availabilityCache,
  req,           \* the search request being served
  enrich,        \* enrichMovieResults / enrichTvResults loop, per kind
  lastArrDone,   \* history: the latest finished remote manager exchange
  searches,      \* number of searches started
  adminOps,      \* number of server-registry writes
  probe,         \* one call of a checker's pure part: its inputs and output
  content_requests,  \* table content_requests
  managers,      \* what the download managers hold, per server and kind
  exec,          \* addToRadarr / addToSonarr, the call of each handler
  handlers,      \* the handlers of /api/requests in progress
  uuids,         \* number of crypto.randomUUID() values drawn
  requests,      \* number of /api/requests requests received
  runs,          \* checker calls made outside a search, each with its history
  settings,      \* table settings: the value stored under each key
  users,         \* table users: id and role of every account
  reply          \* the last answer of a setup or administration handler

vars == <<now, ticks, plex_servers, rss_items, availabilityCache, req, enrich,
          lastArrDone, searches, adminOps, probe, content_requests, managers,
          exec, handlers, uuids, requests, runs,
                    settings, users, reply>>

\* ------------------------------------------------------- pure functions
\* JavaScript truthiness of a string-or-undefined value
Truthy(x) == x # NULL /\ x # ""

\* search.js:447-451, the match predicate of checkPlexMovie / checkPlexTv
PlexMatch(m, title, year) ==
  LET titleMatch == ToLowerCase(m.title) = ToLowerCase(title)
      yearMatch == \/ ~Truthy(year)
                   \/ (m.year # NoNumber /\ m.year = ParseInt(year))
  IN titleMatch /\ yearMatch

\* search.js:433-462, scan of the sections' Metadata lists: first match wins
RECURSIVE PlexScan(_, _, _)
PlexScan(sections, title, year) ==
  IF sections = <<>> THEN [exists |-> FALSE]
  ELSE IF \E m \in Head(sections) : PlexMatch(m, title, year)
       THEN [exists |-> TRUE]
       ELSE PlexScan(Tail(sections), title, year)

\* variant: the release status is looked at before the queue
RadarrClassify_releaseFirst(answer, tmdbId) ==
  LET found == { m \in answer.movies : m.tmdbId = tmdbId }
  IN IF found = {} THEN NULL
     ELSE LET movie == CHOOSE m \in found : TRUE
              inQueue == /\ answer.queue.hasRecords
                         /\ \E q \in answer.queue.records : q = movie.id
          IN IF movie.hasFile THEN "downloaded"
             ELSE IF movie.monitored
                  THEN IF movie.status = "released" THEN "missing"
                       ELSE IF inQueue THEN "queued"
                            ELSE "unreleased"
                  ELSE NULL

\* search.js:556-571, classification of the movie manager's answer
RadarrClassify(answer, tmdbId) ==
  LET found == { m \in answer.movies : m.tmdbId = tmdbId }
  IN IF found = {} THEN NULL
     ELSE LET movie == CHOOSE m \in found : TRUE
              inQueue == /\ answer.queue.hasRecords
                         /\ \E q \in answer.queue.records : q = movie.id
          IN IF movie.hasFile THEN "downloaded"
             ELSE IF movie.monitored
                  THEN IF inQueue THEN "queued"
                       ELSE IF movie.status = "released" THEN "missing"
                            ELSE "unreleased"
                  ELSE NULL

\* search.js:604-606, the series manager's answer is not inspected
SonarrClassify(answer, tmdbId) == NULL

\* variant: the catch block lets the error escape the checker
PlexCatch_rethrow == [threw |-> TRUE, data |-> [exists |-> FALSE]]

\* search.js:463-466, the catch block of checkPlexMovie / checkPlexTv
PlexCatch == [threw |-> FALSE, data |-> [exists |-> FALSE]]

\* search.js:575-578 and 610-613, the catch block of the manager checkers
ArrCatch == [threw |-> FALSE, data |-> NULL]

\* variant: an entry of exactly CACHE_TTL milliseconds still counts as fresh
CacheFresh_inclusive(cache, key, t) ==
  key \in DOMAIN cache /\ t - cache[key].timestamp <= CACHE_TTL

\* search.js:410, 476, 541, 588: cached && Date.now() - cached.timestamp < CACHE_TTL
CacheFresh(cache, key, t) ==
  key \in DOMAIN cache /\ t - cache[key].timestamp < CACHE_TTL

\* variant: an entry already in the cache is kept
CacheSet_keepFirst(cache, key, data, t) ==
  IF key \in DOMAIN cache THEN cache
  ELSE [k \in DOMAIN cache \cup {key} |->
          IF k = key THEN [data |-> data, timestamp |-> t] ELSE cache[k]]

\* availabilityCache.set(cacheKey, { data, timestamp: Date.now() })
CacheSet(cache, key, data, t) ==
  [k \in DOMAIN cache \cup {key} |->
     IF k = key THEN [data |-> data, timestamp |-> t] ELSE cache[k]]

\* variant: the lookup does not filter on content_type
RssLookup_anyKind(rows, tmdbId, contentType) ==
  \E r \in rows : r.tmdb_id = tmdbId

\* search.js:331-335 and 383-387, the rss_items lookup of the aggregator
RssLookup(rows, tmdbId, contentType) ==
  \E r \in rows : r.tmdb_id = tmdbId /\ r.content_type = contentType

\* variant: the manager status is tested before the library presence
OverallStatus_arrFirst(plexAvailable, arrStatus, inRssFeed) ==
  IF Truthy(arrStatus) THEN arrStatus
  ELSE IF plexAvailable THEN "available"
  ELSE IF inRssFeed THEN "requested"
  ELSE "not_available"

\* search.js:337-346 and 389-398, the reduction to one status
OverallStatus(plexAvailable, arrStatus, inRssFeed) ==
  IF plexAvailable THEN "available"
  ELSE IF Truthy(arrStatus) THEN arrStatus
  ELSE IF inRssFeed THEN "requested"
  ELSE "not_available"

\* Array.prototype.find on id: the first entry with that id
Find(seq, id) ==
  LET I == { n \in 1..Len(seq) : seq[n].id = id }
  IN seq[CHOOSE n \in I : \A m \in I : n <= m]

\* variant: the re-merge looks an item up by id alone, movies first
MergeResults_byId(filtered, enrichedMovies, enrichedTv) ==
  [n \in 1..Len(filtered) |->
     Find(enrichedMovies \o enrichedTv, filtered[n].id)]

\* search.js:151-157, re-merge of the two enriched lists in catalog order
MergeResults(filtered, enrichedMovies, enrichedTv) ==
  [n \in 1..Len(filtered) |->
     IF filtered[n].media_type = "movie"
     THEN Find(enrichedMovies, filtered[n].id)
     ELSE Find(enrichedTv, filtered[n].id)]

\* ------------------------------------------------------ aggregator state
\* search.js:302-308 and 355-361, the availability record of one item, with
\* the history of the checks made for it and the rss_items rows seen
FreshResult ==
  [status |-> "unknown", plexAvailable |-> FALSE, plexServers |-> <<>>,
   arrStatus |-> NULL, inRssFeed |-> FALSE,
   plexChecks |-> <<>>, arrChecks |-> <<>>, rssSeen |-> {}]

\* what a checker found when it was called: the cache entry under its key
\* and its age, whether the server (and its manager) is configured, and the
\* age of the latest remote failure if the last exchange on the key failed
NoSeen ==
  [hadEntry |-> FALSE, age |-> 0, data |-> NULL, configured |-> FALSE,
   sinceError |-> -1]

IdleLoop ==
  [pc |-> "done", items |-> <<>>, i |-> 1, s |-> 1,
   result |-> FreshResult, results |-> <<>>, seen |-> NoSeen]

NoUser == [servers |-> <<>>, primaryServerId |-> NULL]

NoRequest ==
  [state |-> "idle", route |-> "none", user |-> NoUser, filtered |-> <<>>,
   code |-> 0, results |-> <<>>, order |-> <<>>]

NoKey == <<"", "", "", "">>

NoArrDone == [key |-> NoKey, outcome |-> "none", at |-> 0]

\* search.js:239 and 265, head of the loop over the items; search.js:311-313
\* and 363-365, head of the loop over the user's servers
EnterItem(L, user) ==
  [L EXCEPT !.pc = IF L.i > Len(L.items) THEN "done"
                   ELSE IF user.servers = <<>> THEN "decide" ELSE "plex",
            !.s = 1,
            !.result = FreshResult]

\* search.js:313 and 365, next iteration of the loop over the servers
NextServer(L, user) ==
  IF L.s < Len(user.servers)
  THEN [L EXCEPT !.pc = "plex", !.s = @ + 1]
  ELSE [L EXCEPT !.pc = "decide"]

\* variant: the flag is raised but the server's name is not kept
AfterPlex_flagOnly(L, user, plexResult, via, seen) ==
  LET sid == user.servers[L.s]
      R == [L.result EXCEPT
              !.plexAvailable = @ \/ plexResult.exists,
              !.plexChecks = Append(@, [server |-> sid,
                                        exists |-> plexResult.exists,
                                        via |-> via, seen |-> seen])]
      L1 == [L EXCEPT !.result = R, !.seen = NoSeen]
  IN IF sid = user.primaryServerId
     THEN [L1 EXCEPT !.pc = "arr"]
     ELSE NextServer(L1, user)

\* search.js:316-322 and 368-374, use of the library check's result
AfterPlex(L, user, plexResult, via, seen) ==
  LET sid == user.servers[L.s]
      R == [L.result EXCEPT
              !.plexAvailable = @ \/ plexResult.exists,
              !.plexServers = IF plexResult.exists
                              THEN Append(@, ServerName(sid)) ELSE @,
              !.plexChecks = Append(@, [server |-> sid,
                                        exists |-> plexResult.exists,
                                        via |-> via, seen |-> seen])]
      L1 == [L EXCEPT !.result = R, !.seen = NoSeen]
  IN IF sid = user.primaryServerId
     THEN [L1 EXCEPT !.pc = "arr"]
     ELSE NextServer(L1, user)

\* variant: the manager check's result is logged but not kept
AfterArr_discard(L, user, arrResult, via, seen) ==
  LET sid == user.servers[L.s]
      R == [L.result EXCEPT
              !.arrChecks = Append(@, [server |-> sid, status |-> arrResult,
                                       via |-> via, seen |-> seen])]
  IN NextServer([L EXCEPT !.result = R, !.seen = NoSeen], user)

\* search.js:323-327 and 375-379, use of the manager check's result
AfterArr(L, user, arrResult, via, seen) ==
  LET sid == user.servers[L.s]
      R == [L.result EXCEPT
              !.arrStatus = IF Truthy(arrResult) THEN arrResult ELSE @,
              !.arrChecks = Append(@, [server |-> sid, status |-> arrResult,
                                       via |-> via, seen |-> seen])]
  IN NextServer([L EXCEPT !.result = R, !.seen = NoSeen], user)

\* SELECT * FROM plex_servers WHERE id = ?
HasServer(sid) == \E r \in plex_servers : r.id = sid

ServerRow(sid) == CHOOSE r \in plex_servers : r.id = sid

\* search.js:546 and 593, is the manager of this kind configured
ArrConfigured(kind, sid) ==
  /\ HasServer(sid)
  /\ IF kind = "movie" THEN ServerRow(sid).radarr ELSE ServerRow(sid).sonarr

ArrKey(kind, sid, tmdbId) ==
  IF kind = "movie" THEN RadarrKey(sid, tmdbId) ELSE SonarrKey(sid, tmdbId)

\* sequences without repetition of length lo..hi over S
InjSeqs(S, lo, hi) ==
  UNION { { q \in [1..n -> S] : \A a, b \in 1..n : a # b => q[a] # q[b] }
          : n \in lo..hi }

\* the rows of user_servers of one user, in primary-key order
ServerLists(ids) ==
  { q \in InjSeqs(ids, 0, Cardinality(ids)) :
      \A a, b \in 1..Len(q) : a < b => (q[a] = "s1" /\ q[b] = "s2") }

\* index.js:181-194, req.user as the auth middleware builds it: the servers
\* joined from user_servers, and users.primary_server_id
Users ==
  [servers : ServerLists({ r.id : r \in plex_servers }),
   primaryServerId : { r.id : r \in plex_servers } \cup {NULL}]

\* the catalog provider's answer to a query
Batches(maxLen) == InjSeqs(Catalog, 1, maxLen)

Routes(filtered) ==
  {"multi"}
    \cup (IF \A n \in 1..Len(filtered) : filtered[n].media_type = "movie"
          THEN {"movies"} ELSE {})
    \cup (IF \A n \in 1..Len(filtered) : filtered[n].media_type = "tv"
          THEN {"tv"} ELSE {})

\* search.js:141-142, filtered.filter(r => r.media_type === k)
OfKind(filtered, k) ==
  LET Test(it) == it.media_type = k IN SelectSeq(filtered, Test)

\* setup.js:117-124 and auth.js:784-797: the registry after setup, one server
\* with both download managers paired and one with none
Registry ==
  { [id |-> "s1", radarr |-> TRUE, sonarr |-> TRUE],
    [id |-> "s2", radarr |-> FALSE, sonarr |-> FALSE] }

\* database/index.js:180-197, rows of rss_items for catalog id 603
RssRows ==
  [id : {0}, server_id : Servers, content_type : Kinds, tmdb_id : {603}]

\* search.js:455, 461 and 573: entries a search for catalog id 603 that has
\* just ended may have left in the cache
PlexEntries ==
  [key : { PlexKey("movie", s, "The Matrix", "1999") : s \in Servers },
   data : { [exists |-> TRUE] },
   timestamp : {0}]

ArrEntries ==
  [key : { RadarrKey("s1", 603) }, data : {"downloaded"},
   timestamp : {0}]

KeysOf(E) == { e.key : e \in E }

\* the cache holding the entries EP and EA, one per key
CacheOf(EP, EA) ==
  [k \in KeysOf(EP) \cup KeysOf(EA) |->
     IF k \in KeysOf(EP)
     THEN LET e == CHOOSE x \in EP : x.key = k
          IN [data |-> e.data, timestamp |-> e.timestamp]
     ELSE LET e == CHOOSE x \in EA : x.key = k
          IN [data |-> e.data, timestamp |-> e.timestamp]]

WarmCaches(maxEntries) ==
  { CacheOf(p[1], p[2]) :
      p \in { q \in (SUBSET PlexEntries) \X (SUBSET ArrEntries) :
                /\ Cardinality(q[1]) + Cardinality(q[2]) <= maxEntries
                /\ Cardinality(KeysOf(q[1])) = Cardinality(q[1])
                /\ Cardinality(KeysOf(q[2])) = Cardinality(q[2]) } }

\* ------------------------------------------- request-side state, at rest
\* the handlers of /api/requests that can be in progress at once
Slots == 1..MaxHandlers

NoProbe ==
  [fn |-> "none", done |-> FALSE,
   record |-> [title |-> "", year |-> NoNumber], title |-> "", year |-> NULL,
   answer |-> NoAnswer, series |-> {}, tmdbId |-> 0,
   matched |-> FALSE, status |-> NULL]

\* requests.js:19-21 ... 87, the value addToRadarr / addToSonarr returns
NoOutcome == [success |-> FALSE, alreadyExists |-> FALSE, error |-> ""]

NoServer == [id |-> NULL, radarr |-> FALSE, sonarr |-> FALSE]

\* requests.js:64-74, the body of the add call
NoAdd == [rootFolderPath |-> "", qualityProfileId |-> 0]

\* the executor's call: its arguments, the remote calls issued so far, how
\* each was answered, the lists read, the add call's body, and the outcome
NoExec ==
  [pc |-> "idle", kind |-> "movie", server |-> NoServer, tmdbId |-> 0,
   title |-> "", calls |-> <<>>, lookup |-> "unasked",
   rootAnswer |-> "unasked", roots |-> <<>>,
   profileAnswer |-> "unasked", profiles |-> <<>>,
   body |-> NoAdd, addAnswer |-> "unasked", outcome |-> NoOutcome]

\* requests.js:241-249, req.body
NoBody == [tmdbId |-> 0, contentType |-> "", title |-> ""]

\* index.js:187-194, req.user
NoCaller ==
  [id |-> NULL, role |-> "user", canAddDirectly |-> FALSE,
   primaryServerId |-> NULL]

\* database/index.js:156-177, no row of content_requests
NoRow ==
  [id |-> 0, user_id |-> NULL, server_id |-> NULL, tmdb_id |-> 0,
   content_type |-> "", title |-> "", status |-> "", processed_by |-> NULL,
   processed_at |-> <<>>, notes |-> NULL]

\* a handler: the request, what it has read, its answer, and the history of
\* what it did (passed the guards, executor calls made, rows inserted)
NoHandler ==
  [pc |-> "idle", op |-> "none", user |-> NoCaller, body |-> NoBody,
   server |-> NoServer, code |-> 0, status |-> "", warning |-> "",
   passed |-> FALSE, execCalls |-> 0, inserted |-> {}, tracked |-> {},
   target |-> 0, request |-> NoRow, notes |-> NULL, checked |-> "none"]

NoManagers == [s \in Servers |-> [k \in Kinds |-> <<>>]]

\* a call of checkPlexMovie or checkRadarrMovie: its cache key, the entry it
\* wrote, how many entries had been written when it began (began) and when
\* it had written its own (order), and what it returned
NoRun ==
  [pc |-> "idle", fn |-> "none", key |-> NoKey, via |-> "none",
   wrote |-> <<>>, began |-> 0, order |-> 0, returned |-> <<>>]

NoRuns == [r \in 1..MaxRuns |-> NoRun]

\* database/index.js:102-108, the keys of table settings that matter here;
\* a key without a row has the value NULL
SettingKeys == {"setup_complete", "tmdb_api_key", "site_name"}

NoSettings == [k \in SettingKeys |-> NULL]

\* setup.js:81 and 170, the settings once the wizard has been completed
InstalledSettings ==
  [NoSettings EXCEPT !["setup_complete"] = "true", !["tmdb_api_key"] = "key"]

\* setup.js:46-49 and users.js:80-91, the accounts of a running installation
InstalledUsers ==
  { [id |-> "a1", role |-> "admin"], [id |-> "u1", role |-> "user"] }

NoReply == [op |-> "none", code |-> 0, caller |-> NULL]

\* the installation is set up and no setup or administration request has
\* been answered
Installed ==
  /\ settings = InstalledSettings
  /\ users = InstalledUsers
  /\ reply = NoReply

RequestsAtRest ==
  /\ content_requests = {}
  /\ managers = NoManagers
  /\ exec = [h \in Slots |-> NoExec]
  /\ handlers = [h \in Slots |-> NoHandler]
  /\ uuids = 0
  /\ requests = 0

SearchAtRest ==
  /\ now = 0
  /\ ticks = 0
  /\ availabilityCache = << >>
  /\ req = NoRequest
  /\ enrich = [k \in Kinds |-> IdleLoop]
  /\ lastArrDone = [k \in Kinds |-> NoArrDone]
  /\ searches = 0
  /\ adminOps = 0

\* The cache holds what an earlier search left in it
Init ==
  /\ now = 0
  /\ ticks = 0
  /\ plex_servers = Registry
  /\ rss_items \in { S \in SUBSET RssRows : Cardinality(S) <= MaxTracked }
  /\ availabilityCache \in WarmCaches(MaxCached)
  /\ req = NoRequest
  /\ enrich = [k \in Kinds |-> IdleLoop]
  /\ lastArrDone = [k \in Kinds |-> NoArrDone]
  /\ searches = 0
  /\ adminOps = 0
  /\ probe = NoProbe
  /\ runs = NoRuns
  /\ Installed
  /\ RequestsAtRest

\* the clock advances
Tick(d) ==
  /\ now' = now + d
  /\ ticks' = ticks + 1
  /\ UNCHANGED <<plex_servers, rss_items, availabilityCache, req, enrich,
                 lastArrDone, searches, adminOps,
                 probe, content_requests, managers, exec, handlers,
                 uuids, requests, runs,
                    settings, users, reply>>

\* auth.js:948-1006, PUT /api/servers/:id
UpdateServer(s, radarr, sonarr) ==
  /\ HasServer(s)
  /\ [id |-> s, radarr |-> radarr, sonarr |-> sonarr] \notin plex_servers
  /\ plex_servers' = { r \in plex_servers : r.id # s } \cup
                       {[id |-> s, radarr |-> radarr, sonarr |-> sonarr]}
  /\ adminOps' = adminOps + 1
  /\ UNCHANGED <<now, ticks, rss_items, availabilityCache, req, enrich,
                 lastArrDone, searches,
                 probe, content_requests, managers, exec, handlers,
                 uuids, requests, runs,
                    settings, users, reply>>

\* auth.js:1025-1032, DELETE /api/servers/:id; the rows of rss_items and
\* content_requests go with the server (ON DELETE CASCADE)
DeleteServer(s) ==
  /\ HasServer(s)
  /\ plex_servers' = { r \in plex_servers : r.id # s }
  /\ rss_items' = { r \in rss_items : r.server_id # s }
  /\ content_requests' = { r \in content_requests : r.server_id # s }
  /\ adminOps' = adminOps + 1
  /\ UNCHANGED <<now, ticks, availabilityCache, req, enrich, lastArrDone,
                 searches, probe, managers, exec, handlers, uuids, requests,
                 runs,
                    settings, users, reply>>

\* search.js:30-54, 72-96 and 114-148: a search request arrives, the
\* catalog answers, and the enrichment of the result list begins
Start(route, user, filtered) ==
  /\ req.state # "running"
  /\ req' = [state |-> "running", route |-> route, user |-> user,
             filtered |-> filtered, code |-> 0, results |-> <<>>,
             order |-> <<>>]
  /\ enrich' = [k \in Kinds |->
                  EnterItem([IdleLoop EXCEPT !.items = OfKind(filtered, k)],
                            user)]
  /\ searches' = searches + 1
  /\ UNCHANGED <<now, ticks, plex_servers, rss_items, availabilityCache,
                 lastArrDone, adminOps,
                 probe, content_requests, managers, exec, handlers,
                 uuids, requests, runs,
                    settings, users, reply>>

\* search.js:409 (475, 540, 587): availabilityCache.get(cacheKey)
Seen(key, configured, sinceError, none) ==
  IF key \in DOMAIN availabilityCache
  THEN [hadEntry |-> TRUE, age |-> now - availabilityCache[key].timestamp,
        data |-> availabilityCache[key].data, configured |-> configured,
        sinceError |-> sinceError]
  ELSE [hadEntry |-> FALSE, age |-> 0, data |-> none,
        configured |-> configured, sinceError |-> sinceError]

\* search.js:406-426 and 472-492, checkPlexMovie / checkPlexTv up to the
\* first remote call
PlexBegin(k) ==
  LET L == enrich[k]
      item == L.items[L.i]
      sid == req.user.servers[L.s]
      key == PlexKey(k, sid, item.title, YearPart(item.release_date))
      seen == Seen(key, HasServer(sid), -1, [exists |-> FALSE])
  IN /\ req.state = "running"
     /\ L.pc = "plex"
     /\ enrich' = [enrich EXCEPT ![k] =
          IF CacheFresh(availabilityCache, key, now)
          THEN AfterPlex(L, req.user, availabilityCache[key].data, "cache",
                         seen)
          ELSE IF ~HasServer(sid)
          THEN AfterPlex(L, req.user, [exists |-> FALSE], "none", seen)
          ELSE [L EXCEPT !.pc = "plex_wait", !.seen = seen]]
     /\ UNCHANGED <<now, ticks, plex_servers, rss_items, availabilityCache,
                    req, lastArrDone, searches, adminOps,
                 probe, content_requests, managers, exec, handlers,
                 uuids, requests, runs,
                    settings, users, reply>>

\* search.js:420-466 and 486-531, the remote calls of the library check end
PlexComplete(k, outcome) ==
  LET L == enrich[k]
      item == L.items[L.i]
      sid == req.user.servers[L.s]
      year == YearPart(item.release_date)
      key == PlexKey(k, sid, item.title, year)
      result == PlexScan(outcome.sections, item.title, year)
  IN /\ req.state = "running"
     /\ L.pc = "plex_wait"
     /\ IF outcome.ok
        THEN /\ availabilityCache' =
                  CacheSet(availabilityCache, key, result, now)
             /\ enrich' = [enrich EXCEPT ![k] =
                  AfterPlex(L, req.user, result, "remote", L.seen)]
        ELSE /\ enrich' = [enrich EXCEPT ![k] =
                  IF PlexCatch.threw
                  THEN [L EXCEPT !.pc = "threw"]
                  ELSE AfterPlex(L, req.user, PlexCatch.data, "error", L.seen)]
             /\ UNCHANGED availabilityCache
     /\ UNCHANGED <<now, ticks, plex_servers, rss_items, req, lastArrDone,
                    searches, adminOps,
                 probe, content_requests, managers, exec, handlers,
                 uuids, requests, runs,
                    settings, users, reply>>

\* variant: the manager is called whether the server has it paired or not
ArrBegin_noConfigTest(k) ==
  LET L == enrich[k]
      item == L.items[L.i]
      sid == req.user.servers[L.s]
      key == ArrKey(k, sid, item.id)
      sinceError == IF /\ lastArrDone[k].outcome = "error"
                       /\ lastArrDone[k].key = key
                    THEN now - lastArrDone[k].at ELSE -1
      seen == Seen(key, ArrConfigured(k, sid), sinceError, NULL)
  IN /\ req.state = "running"
     /\ L.pc = "arr"
     /\ enrich' = [enrich EXCEPT ![k] =
          IF CacheFresh(availabilityCache, key, now)
          THEN AfterArr(L, req.user, availabilityCache[key].data, "cache",
                        seen)
          ELSE [L EXCEPT !.pc = "arr_wait", !.seen = seen]]
     /\ UNCHANGED <<now, ticks, plex_servers, rss_items, availabilityCache,
                    req, lastArrDone, searches, adminOps,
                    probe, content_requests, managers, exec, handlers,
                    uuids, requests, runs,
                    settings, users, reply>>

\* search.js:537-554 and 584-602, checkRadarrMovie / checkSonarrSeries up to
\* the first remote call
ArrBegin(k) ==
  LET L == enrich[k]
      item == L.items[L.i]
      sid == req.user.servers[L.s]
      key == ArrKey(k, sid, item.id)
      sinceError == IF /\ lastArrDone[k].outcome = "error"
                       /\ lastArrDone[k].key = key
                    THEN now - lastArrDone[k].at ELSE -1
      seen == Seen(key, ArrConfigured(k, sid), sinceError, NULL)
  IN /\ req.state = "running"
     /\ L.pc = "arr"
     /\ enrich' = [enrich EXCEPT ![k] =
          IF CacheFresh(availabilityCache, key, now)
          THEN AfterArr(L, req.user, availabilityCache[key].data, "cache",
                        seen)
          ELSE IF ~ArrConfigured(k, sid)
          THEN AfterArr(L, req.user, NULL, "none", seen)
          ELSE [L EXCEPT !.pc = "arr_wait", !.seen = seen]]
     /\ UNCHANGED <<now, ticks, plex_servers, rss_items, availabilityCache,
                    req, lastArrDone, searches, adminOps,
                 probe, content_requests, managers, exec, handlers,
                 uuids, requests, runs,
                    settings, users, reply>>

\* search.js:551-578 and 599-613, the remote calls of the manager check end
ArrComplete(k, outcome) ==
  LET L == enrich[k]
      item == L.items[L.i]
      sid == req.user.servers[L.s]
      key == ArrKey(k, sid, item.id)
      status == IF k = "movie"
                THEN RadarrClassify(outcome.answer, item.id)
                ELSE SonarrClassify(outcome.answer, item.id)
  IN /\ req.state = "running"
     /\ L.pc = "arr_wait"
     /\ IF outcome.ok
        THEN /\ availabilityCache' =
                  CacheSet(availabilityCache, key, status, now)
             /\ enrich' = [enrich EXCEPT ![k] =
                  AfterArr(L, req.user, status, "remote", L.seen)]
             /\ lastArrDone' = [lastArrDone EXCEPT ![k] =
                  [key |-> key, outcome |-> "ok", at |-> now]]
        ELSE /\ enrich' = [enrich EXCEPT ![k] =
                  IF ArrCatch.threw
                  THEN [L EXCEPT !.pc = "threw"]
                  ELSE AfterArr(L, req.user, ArrCatch.data, "error", L.seen)]
             /\ lastArrDone' = [lastArrDone EXCEPT ![k] =
                  [key |-> key, outcome |-> "error", at |-> now]]
             /\ UNCHANGED availabilityCache
     /\ UNCHANGED <<now, ticks, plex_servers, rss_items, req, searches,
                    adminOps,
                 probe, content_requests, managers, exec, handlers,
                 uuids, requests, runs,
                    settings, users, reply>>

\* variant: a tracked item hides the manager status
Decide_trackedFirst(k) ==
  LET L == enrich[k]
      item == L.items[L.i]
      inRssFeed == RssLookup(rss_items, item.id, k)
      R == [L.result EXCEPT
              !.inRssFeed = inRssFeed,
              !.status = IF inRssFeed /\ ~L.result.plexAvailable
                         THEN "requested"
                         ELSE OverallStatus(L.result.plexAvailable,
                                            L.result.arrStatus, inRssFeed),
              !.rssSeen = rss_items]
      entry == [id |-> item.id, title |-> item.title, mediaType |-> k,
                availability |-> R]
  IN /\ req.state = "running"
     /\ L.pc = "decide"
     /\ enrich' = [enrich EXCEPT ![k] =
          EnterItem([L EXCEPT !.results = Append(@, entry), !.i = @ + 1],
                    req.user)]
     /\ req' = [req EXCEPT !.order = Append(@, <<k, item.id>>)]
     /\ UNCHANGED <<now, ticks, plex_servers, rss_items, availabilityCache,
                    lastArrDone, searches, adminOps,
                 probe, content_requests, managers, exec, handlers,
                 uuids, requests, runs,
                    settings, users, reply>>

\* search.js:330-348 with 242-253, and 382-400 with 268-292: the tracked-item
\* lookup, the reduction, and the push of the enriched entry
Decide(k) ==
  LET L == enrich[k]
      item == L.items[L.i]
      inRssFeed == RssLookup(rss_items, item.id, k)
      R == [L.result EXCEPT
              !.inRssFeed = inRssFeed,
              !.status = OverallStatus(L.result.plexAvailable,
                                       L.result.arrStatus, inRssFeed),
              !.rssSeen = rss_items]
      entry == [id |-> item.id, title |-> item.title, mediaType |-> k,
                availability |-> R]
  IN /\ req.state = "running"
     /\ L.pc = "decide"
     /\ enrich' = [enrich EXCEPT ![k] =
          EnterItem([L EXCEPT !.results = Append(@, entry), !.i = @ + 1],
                    req.user)]
     /\ req' = [req EXCEPT !.order = Append(@, <<k, item.id>>)]
     /\ UNCHANGED <<now, ticks, plex_servers, rss_items, availabilityCache,
                    lastArrDone, searches, adminOps,
                 probe, content_requests, managers, exec, handlers,
                 uuids, requests, runs,
                    settings, users, reply>>

\* search.js:56-65, 98-107 and 150-168: both enrichments have returned and
\* the handler answers
Respond ==
  /\ req.state = "running"
  /\ \A k \in Kinds : enrich[k].pc \in {"done", "threw"}
  /\ IF \E k \in Kinds : enrich[k].pc = "threw"
     THEN req' = [req EXCEPT !.state = "responded", !.code = 500]
     ELSE req' = [req EXCEPT
            !.state = "responded",
            !.code = 200,
            !.results =
               CASE req.route = "movies" -> enrich["movie"].results
                 [] req.route = "tv" -> enrich["tv"].results
                 [] OTHER -> MergeResults(req.filtered,
                                          enrich["movie"].results,
                                          enrich["tv"].results)]
  /\ enrich' = [k \in Kinds |-> IdleLoop]
  /\ UNCHANGED <<now, ticks, plex_servers, rss_items, availabilityCache,
                 lastArrDone, searches, adminOps,
                 probe, content_requests, managers, exec, handlers,
                 uuids, requests, runs,
                    settings, users, reply>>

\* the steps of the enrichment loops, the remote services answering anything
Check ==
  \/ \E k \in Kinds : PlexBegin(k)
  \/ \E k \in Kinds, outcome \in PlexOutcomes : PlexComplete(k, outcome)
  \/ \E k \in Kinds : ArrBegin(k)
  \/ \E k \in Kinds, outcome \in ArrOutcomes : ArrComplete(k, outcome)
  \/ \E k \in Kinds : Decide(k)

\* One search of up to MaxBatch items by any user, of at most MaxFanout
\* library checks, from arrival to response
Next ==
  \/ /\ req.state = "idle"
     /\ \E filtered \in Batches(MaxBatch) : \E route \in Routes(filtered) :
          \E user \in Users :
            /\ Len(filtered) * Len(user.servers) <= MaxFanout
            /\ Start(route, user, filtered)
  \/ Check
  \/ Respond

Spec == Init /\ [][Next]_vars

\* ------------------------------------------------- repeated single lookups
\* Remote answers about catalog id 603 only
FewPlexOutcomes ==
  { o \in PlexOutcomes :
      o.sections \in {<<>>, <<{[title |-> "THE MATRIX", year |-> 1999]}>>} }

FewArrOutcomes ==
  { o \in ArrOutcomes :
      /\ ~o.answer.queue.hasRecords
      /\ \A m \in o.answer.movies :
           m.tmdbId = 603 /\ m.hasFile /\ m.monitored /\ m.status = "released" }

\* the users bound to server s1 only, their primary one
SingleServerUsers ==
  { u \in Users : u.servers = <<"s1">> /\ u.primaryServerId = "s1" }

\* the catalog's answers for id 603
DetailBatches == { b \in Batches(1) : b[1].id = 603 }

InitCache ==
  /\ now = 0
  /\ ticks = 0
  /\ plex_servers = Registry
  /\ rss_items = {}
  /\ availabilityCache = << >>
  /\ req = NoRequest
  /\ enrich = [k \in Kinds |-> IdleLoop]
  /\ lastArrDone = [k \in Kinds |-> NoArrDone]
  /\ searches = 0
  /\ adminOps = 0
  /\ probe = NoProbe
  /\ runs = NoRuns
  /\ Installed
  /\ RequestsAtRest

\* Up to MaxLookups detail requests (search.js:175-231, one item each) from a
\* cold cache, while the clock advances and the registry is edited
NextCache ==
  \/ \E d \in {1, CACHE_TTL - 1} : ticks < MaxTicks /\ Tick(d)
  \/ \E s \in Servers, radarr \in BOOLEAN, sonarr \in BOOLEAN :
       adminOps < MaxAdminOps /\ UpdateServer(s, radarr, sonarr)
  \/ \E s \in Servers : adminOps < MaxAdminOps /\ DeleteServer(s)
  \/ /\ req.state # "running"
     /\ searches < MaxLookups
     /\ \E filtered \in DetailBatches : \E user \in SingleServerUsers :
          Start(IF filtered[1].media_type = "movie" THEN "movies" ELSE "tv",
                user, filtered)
  \/ \E k \in Kinds : PlexBegin(k)
  \/ \E k \in Kinds, outcome \in FewPlexOutcomes : PlexComplete(k, outcome)
  \/ \E k \in Kinds : ArrBegin(k)
  \/ \E k \in Kinds, outcome \in FewArrOutcomes : ArrComplete(k, outcome)
  \/ \E k \in Kinds : Decide(k)
  \/ Respond

SpecCache == InitCache /\ [][NextCache]_vars

\* ------------------------------------------- the checkers' pure parts
\* the calls of the match predicate: a library record against a catalog item
MatchInputs ==
  { [NoProbe EXCEPT !.fn = "match", !.record = m, !.title = it.title,
                    !.year = YearPart(it.release_date)] :
      m \in LibraryRecords, it \in Catalog }

\* the calls of the movie classification: an answer of the movie manager
RadarrInputs ==
  { [NoProbe EXCEPT !.fn = "radarr", !.answer = a, !.tmdbId = id] :
      a \in RadarrAnswers, id \in {603, 604} }

\* the calls of the series classification: an answer of the series manager
SonarrInputs ==
  { [NoProbe EXCEPT !.fn = "sonarr", !.series = a, !.tmdbId = 603] :
      a \in SonarrAnswers }

InitCheckers ==
  /\ SearchAtRest
  /\ plex_servers = Registry
  /\ rss_items = {}
  /\ RequestsAtRest
  /\ probe \in MatchInputs \cup RadarrInputs \cup SonarrInputs
  /\ runs = NoRuns
  /\ Installed

\* search.js:447-451 and 512-516, movies.find(m => ...) on one record
MatchRecord ==
  /\ probe.fn = "match" /\ ~probe.done
  /\ probe' = [probe EXCEPT
        !.done = TRUE,
        !.matched = PlexMatch(probe.record, probe.title, probe.year)]
  /\ UNCHANGED <<now, ticks, plex_servers, rss_items, availabilityCache, req,
                 enrich, lastArrDone, searches, adminOps, content_requests,
                 managers, exec, handlers, uuids, requests, runs,
                    settings, users, reply>>

\* search.js:556-571, the status checkRadarrMovie derives from the answers
ClassifyMovie ==
  /\ probe.fn = "radarr" /\ ~probe.done
  /\ probe' = [probe EXCEPT
        !.done = TRUE,
        !.status = RadarrClassify(probe.answer, probe.tmdbId)]
  /\ UNCHANGED <<now, ticks, plex_servers, rss_items, availabilityCache, req,
                 enrich, lastArrDone, searches, adminOps, content_requests,
                 managers, exec, handlers, uuids, requests, runs,
                    settings, users, reply>>

\* search.js:599-606, the status checkSonarrSeries derives from the answer
ClassifySeries ==
  /\ probe.fn = "sonarr" /\ ~probe.done
  /\ probe' = [probe EXCEPT
        !.done = TRUE,
        !.status = SonarrClassify(probe.series, probe.tmdbId)]
  /\ UNCHANGED <<now, ticks, plex_servers, rss_items, availabilityCache, req,
                 enrich, lastArrDone, searches, adminOps, content_requests,
                 managers, exec, handlers, uuids, requests, runs,
                    settings, users, reply>>

NextCheckers == MatchRecord \/ ClassifyMovie \/ ClassifySeries

SpecCheckers == InitCheckers /\ [][NextCheckers]_vars

\* ------------------------------------------------ fulfillment executor
\* how the manager answers the lookup call
LookupAnswers == {"found", "none", "error"}

\* how the manager answers GET /api/v3/rootfolder
RootAnswers ==
  {[ok |-> FALSE, list |-> <<>>]}
    \cup { [ok |-> TRUE, list |-> l] :
             l \in {<<>>, <<"/data/a">>, <<"/data/a", "/data/b">>} }

\* how the manager answers GET /api/v3/qualityprofile
ProfileAnswers ==
  {[ok |-> FALSE, list |-> <<>>]}
    \cup { [ok |-> TRUE, list |-> l] : l \in {<<>>, <<4>>, <<4, 6>>} }

\* how the manager answers the add call
AddAnswers == {"created", "exists", "error"}

\* requests.js:19 and 94, the manager of this kind is paired with the server
ExecConfigured(kind, server) ==
  IF kind = "movie" THEN server.radarr ELSE server.sonarr

\* the entries a manager holds for an item: a movie by its catalog id, a
\* series by the title it was looked up with
Held(sid, kind, tmdbId, title) ==
  { n \in 1..Len(managers[sid][kind]) :
      IF kind = "movie"
      THEN managers[sid][kind][n].tmdbId = tmdbId
      ELSE managers[sid][kind][n].title = title }

\* requests.js:64-74 and 139-150, what the add call creates in the manager:
\* a monitored entry without a file, not yet in the download queue (since:
\* the number of searches begun when it entered the queue)
NewEntry(tmdbId, title) ==
  [tmdbId |-> tmdbId, title |-> title, hasFile |-> FALSE, monitored |-> TRUE,
   status |-> "released", queued |-> FALSE, since |-> 0]

\* variant: the add call carries the last storage root and quality profile
AddBody_last(roots, profiles) ==
  [rootFolderPath |-> roots[Len(roots)],
   qualityProfileId |-> profiles[Len(profiles)]]

\* requests.js:48, 59 and 64-74: data[0].path and data[0].id in the add call
AddBody(roots, profiles) ==
  [rootFolderPath |-> roots[1], qualityProfileId |-> profiles[1]]

\* variant: no error of the add call counts as `already exists'
IsExistsError_never(answer) == FALSE

\* requests.js:82 and 158, status 400 with errorCode MovieExistsValidator
IsExistsError(answer) == answer = "exists"

Failure(text) == [success |-> FALSE, alreadyExists |-> FALSE, error |-> text]

\* variant: the catch block lets every other error escape the executor
ExecCatch_rethrow(answer) ==
  IF IsExistsError(answer)
  THEN [threw |-> FALSE,
        outcome |-> [success |-> TRUE, alreadyExists |-> TRUE, error |-> ""]]
  ELSE [threw |-> TRUE, outcome |-> NoOutcome]

\* requests.js:81-87 and 157-163, the catch block of the executor
ExecCatch(answer) ==
  IF IsExistsError(answer)
  THEN [threw |-> FALSE,
        outcome |-> [success |-> TRUE, alreadyExists |-> TRUE, error |-> ""]]
  ELSE [threw |-> FALSE, outcome |-> Failure("error.message")]

\* the executor leaves through its catch block
Caught(E, answer) ==
  [E EXCEPT !.pc = IF ExecCatch(answer).threw THEN "threw" ELSE "returned",
            !.outcome = ExecCatch(answer).outcome]

\* requests.js:18-32 and 93-107, addToRadarr / addToSonarr up to the lookup
ExecStart(kind, server, tmdbId, title) ==
  LET E == [NoExec EXCEPT !.kind = kind, !.server = server,
                          !.tmdbId = tmdbId, !.title = title]
  IN IF ~ExecConfigured(kind, server)
     THEN [E EXCEPT !.pc = "returned",
                    !.outcome = Failure("not configured")]
     ELSE [E EXCEPT !.pc = "lookup", !.calls = <<"lookup">>]

\* requests.js:28-38 and 103-113, the lookup call ends
ExecLookup(h, answer) ==
  /\ exec[h].pc = "lookup"
  /\ exec' = [exec EXCEPT ![h] =
       LET E == [exec[h] EXCEPT !.lookup = answer]
       IN IF answer = "error" THEN Caught(E, answer)
          ELSE IF answer = "none"
          THEN [E EXCEPT !.pc = "returned", !.outcome = Failure("not found")]
          ELSE [E EXCEPT !.pc = "rootfolder",
                         !.calls = Append(@, "rootfolder")]]
  /\ UNCHANGED <<now, ticks, plex_servers, rss_items, availabilityCache, req,
                 enrich, lastArrDone, searches, adminOps, probe,
                 content_requests, managers, handlers, uuids, requests, runs,
                    settings, users, reply>>

\* requests.js:40-49 and 115-124, the storage-root call ends
ExecRootFolder(h, answer) ==
  /\ exec[h].pc = "rootfolder"
  /\ exec' = [exec EXCEPT ![h] =
       IF ~answer.ok
       THEN Caught([exec[h] EXCEPT !.rootAnswer = "error"], "error")
       ELSE IF answer.list = <<>>
       THEN [exec[h] EXCEPT !.pc = "returned",
                            !.rootAnswer = "empty",
                            !.outcome = Failure("no root folder")]
       ELSE [exec[h] EXCEPT !.pc = "qualityprofile",
                            !.rootAnswer = "list",
                            !.roots = answer.list,
                            !.calls = Append(@, "qualityprofile")]]
  /\ UNCHANGED <<now, ticks, plex_servers, rss_items, availabilityCache, req,
                 enrich, lastArrDone, searches, adminOps, probe,
                 content_requests, managers, handlers, uuids, requests, runs,
                    settings, users, reply>>

\* requests.js:51-78 and 126-154, the quality-profile call ends and the add
\* call is issued
ExecQualityProfile(h, answer) ==
  /\ exec[h].pc = "qualityprofile"
  /\ exec' = [exec EXCEPT ![h] =
       IF ~answer.ok
       THEN Caught([exec[h] EXCEPT !.profileAnswer = "error"], "error")
       ELSE IF answer.list = <<>>
       THEN [exec[h] EXCEPT !.pc = "returned",
                            !.profileAnswer = "empty",
                            !.outcome = Failure("no quality profile")]
       ELSE [exec[h] EXCEPT !.pc = "add",
                            !.profileAnswer = "list",
                            !.profiles = answer.list,
                            !.body = AddBody(exec[h].roots, answer.list),
                            !.calls = Append(@, "add")]]
  /\ UNCHANGED <<now, ticks, plex_servers, rss_items, availabilityCache, req,
                 enrich, lastArrDone, searches, adminOps, probe,
                 content_requests, managers, handlers, uuids, requests, runs,
                    settings, users, reply>>

\* requests.js:64-87 and 139-163, the add call ends: the manager creates the
\* entry, or rejects the item it already holds, or the call fails
ExecAdd(h, answer) ==
  LET E == exec[h]
      held == Held(E.server.id, E.kind, E.tmdbId, E.title)
  IN /\ E.pc = "add"
     /\ answer = "created" => held = {}
     /\ answer = "exists" => held # {}
     /\ managers' =
          IF answer = "created"
          THEN [managers EXCEPT ![E.server.id][E.kind] =
                  Append(@, NewEntry(E.tmdbId, E.title))]
          ELSE managers
     /\ exec' = [exec EXCEPT ![h] =
          IF answer = "created"
          THEN [E EXCEPT !.pc = "returned", !.addAnswer = answer,
                         !.outcome = [success |-> TRUE,
                                      alreadyExists |-> FALSE, error |-> ""]]
          ELSE Caught([E EXCEPT !.addAnswer = answer], answer)]
     /\ UNCHANGED <<now, ticks, plex_servers, rss_items, availabilityCache,
                    req, enrich, lastArrDone, searches, adminOps, probe,
                    content_requests, handlers, uuids, requests, runs,
                    settings, users, reply>>

\* ------------------------------------------------- POST /api/requests
\* index.js:187-194, the users who send requests
RequestUsers ==
  [id : {"u1"}, role : {"user"}, canAddDirectly : BOOLEAN,
   primaryServerId : Servers \cup {NULL}]

\* requests.js:241-249, the bodies they send: two catalog items, a body of
\* an unknown content type and an empty one
RequestBodies ==
  { [tmdbId |-> 603, contentType |-> "movie", title |-> "The Matrix"],
    [tmdbId |-> 603, contentType |-> "tv", title |-> "Lost"],
    [tmdbId |-> 603, contentType |-> "music", title |-> "Lost"],
    NoBody }

\* res.status(code).json({ status, warning })
Answer(H, code, status, warning) ==
  [H EXCEPT !.pc = "responded", !.code = code, !.status = status,
            !.warning = warning]

\* variant: the row is inserted as already approved
NewRequest_approved(id, H) ==
  [id |-> id, user_id |-> H.user.id, server_id |-> H.server.id,
   tmdb_id |-> H.body.tmdbId, content_type |-> H.body.contentType,
   title |-> H.body.title, status |-> "approved", processed_by |-> NULL, processed_at |-> <<>>,
   notes |-> NULL]

\* database/index.js:156-177, a row of content_requests as INSERT leaves it
NewRequest(id, H) ==
  [id |-> id, user_id |-> H.user.id, server_id |-> H.server.id,
   tmdb_id |-> H.body.tmdbId, content_type |-> H.body.contentType,
   title |-> H.body.title, status |-> "pending", processed_by |-> NULL, processed_at |-> <<>>,
   notes |-> NULL]

\* database/index.js:180-197, the row of rss_items a create inserts
TrackedRow(id, H) ==
  [id |-> id, server_id |-> H.server.id,
   content_type |-> H.body.contentType, tmdb_id |-> H.body.tmdbId]

\* the rows of rss_items for (server, kind, item)
TrackedRows(sid, kind, tmdbId) ==
  { r \in rss_items :
      r.server_id = sid /\ r.content_type = kind /\ r.tmdb_id = tmdbId }

\* variant: the table has no uniqueness constraint
UniqueViolation_off(row) == FALSE

\* database/index.js:195, UNIQUE(server_id, content_type, tmdb_id): the
\* insert of the row is refused
UniqueViolation(row) ==
  TrackedRows(row.server_id, row.content_type, row.tmdb_id) # {}

\* variant: the lookup does not compare the server
ExistingRequest_anyServer(H) ==
  \E r \in content_requests :
    /\ r.tmdb_id = H.body.tmdbId
    /\ r.content_type = H.body.contentType
    /\ r.status \in {"pending", "approved"}

\* requests.js:316-319, the lookup of a pending or approved request
ExistingRequest(H) ==
  \E r \in content_requests :
    /\ r.tmdb_id = H.body.tmdbId
    /\ r.content_type = H.body.contentType
    /\ r.server_id = H.server.id
    /\ r.status \in {"pending", "approved"}

\* requests.js:315-404, from the duplicate lookup to the executor call or
\* to the insertion of the pending request
AfterGuard(h, H) ==
  IF ExistingRequest(H)
  THEN /\ handlers' = [handlers EXCEPT ![h] = Answer(H, 409, "", "")]
       /\ exec' = [exec EXCEPT ![h] = NoExec]
       /\ UNCHANGED <<content_requests, uuids>>
  ELSE IF H.user.canAddDirectly
  THEN /\ handlers' = [handlers EXCEPT ![h] =
            [H EXCEPT !.pc = "exec", !.passed = TRUE, !.execCalls = @ + 1]]
       /\ exec' = [exec EXCEPT ![h] =
            ExecStart(H.body.contentType, H.server, H.body.tmdbId,
                      H.body.title)]
       /\ UNCHANGED <<content_requests, uuids>>
  ELSE /\ content_requests' =
            content_requests \cup {NewRequest(uuids + 1, H)}
       /\ uuids' = uuids + 1
       /\ handlers' = [handlers EXCEPT ![h] =
            Answer([H EXCEPT !.passed = TRUE, !.inserted = {uuids + 1}],
                   201, "pending", "")]
       /\ exec' = [exec EXCEPT ![h] = NoExec]

\* requests.js:239-279, a create request arrives: validation, the target
\* server, and the pre-check call to the manager if the server has one
CreateBegin(h, user, body) ==
  LET H == [NoHandler EXCEPT !.op = "create", !.user = user, !.body = body]
      invalid == \/ body.tmdbId = 0 \/ body.contentType = "" \/ body.title = ""
                 \/ body.contentType \notin Kinds
                 \/ user.primaryServerId = NULL
                 \/ ~HasServer(user.primaryServerId)
      H1 == [H EXCEPT !.server = ServerRow(user.primaryServerId)]
  IN /\ handlers[h].pc \in {"idle", "responded"}
     /\ requests' = requests + 1
     /\ IF invalid
        THEN /\ handlers' = [handlers EXCEPT ![h] = Answer(H, 400, "", "")]
             /\ exec' = [exec EXCEPT ![h] = NoExec]
             /\ UNCHANGED <<content_requests, uuids>>
        ELSE IF ExecConfigured(body.contentType, H1.server)
        THEN /\ handlers' = [handlers EXCEPT ![h] =
                  [H1 EXCEPT !.pc = "precheck"]]
             /\ exec' = [exec EXCEPT ![h] = NoExec]
             /\ UNCHANGED <<content_requests, uuids>>
        ELSE AfterGuard(h, H1)
     /\ UNCHANGED <<now, ticks, plex_servers, rss_items, availabilityCache,
                    req, enrich, lastArrDone, searches, adminOps, probe,
                    managers, runs,
                    settings, users, reply>>

\* variant: only a movie that has its file is refused
PrecheckConflict_fileOnly(H) ==
  LET list == managers[H.server.id][H.body.contentType]
      held == Held(H.server.id, H.body.contentType, H.body.tmdbId,
                   H.body.title)
  IN /\ held # {}
     /\ list[CHOOSE n \in held : \A m \in held : n <= m].hasFile

\* requests.js:274-312, what the pre-check finds in the manager's list: a
\* movie with a file or monitored, a series with all its episodes
PrecheckConflict(H) ==
  LET list == managers[H.server.id][H.body.contentType]
      held == Held(H.server.id, H.body.contentType, H.body.tmdbId,
                   H.body.title)
  IN /\ held # {}
     /\ LET existing == list[CHOOSE n \in held : \A m \in held : n <= m]
        IN IF H.body.contentType = "movie"
           THEN existing.hasFile \/ existing.monitored
           ELSE existing.hasFile

\* requests.js:274-404, the pre-check call ends, with the manager's list or
\* with an error that is logged and ignored
CreatePrecheck(h, ok) ==
  LET H == [handlers[h] EXCEPT
              !.checked = IF ok THEN "answered" ELSE "failed"]
  IN /\ handlers[h].pc = "precheck"
     /\ IF ok /\ PrecheckConflict(H)
        THEN /\ handlers' = [handlers EXCEPT ![h] =
                  Answer(H, 409, "conflict", "")]
             /\ UNCHANGED <<content_requests, uuids, exec>>
        ELSE AfterGuard(h, H)
     /\ UNCHANGED <<now, ticks, plex_servers, rss_items, availabilityCache,
                    req, enrich, lastArrDone, searches, adminOps, probe,
                    managers, requests, runs,
                    settings, users, reply>>

\* requests.js:336-374 and 406-409, the executor has returned: the tracked
\* item is inserted and the handler answers; an insert that violates
\* UNIQUE(server_id, content_type, tmdb_id) or the foreign key throws
CreateAfterExec(h) ==
  LET H == handlers[h]
      row == TrackedRow(uuids + 1, H)
      arrResult == exec[h].outcome
  IN /\ H.pc = "exec"
     /\ exec[h].pc \in {"returned", "threw"}
     /\ IF exec[h].pc = "threw"
        THEN /\ handlers' = [handlers EXCEPT ![h] = Answer(H, 500, "", "")]
             /\ UNCHANGED <<rss_items, uuids>>
        ELSE /\ uuids' = uuids + 1
             /\ IF UniqueViolation(row) \/ ~HasServer(H.server.id)
                THEN /\ handlers' = [handlers EXCEPT ![h] =
                          Answer(H, 500, "", "")]
                     /\ UNCHANGED rss_items
                ELSE /\ rss_items' = rss_items \cup {row}
                     /\ handlers' = [handlers EXCEPT ![h] =
                          Answer([H EXCEPT !.tracked = {row}], 201, "added",
                                 IF arrResult.success THEN ""
                                 ELSE arrResult.error)]
     /\ UNCHANGED <<now, ticks, plex_servers, availabilityCache, req, enrich,
                    lastArrDone, searches, adminOps, probe, content_requests,
                    managers, exec, requests, runs,
                    settings, users, reply>>

InitRequests ==
  /\ SearchAtRest
  /\ plex_servers = Registry
  /\ rss_items = {}
  /\ probe = NoProbe
  /\ runs = NoRuns
  /\ Installed
  /\ RequestsAtRest

\* Up to MaxRequests create requests, up to MaxHandlers of them at a time,
\* the managers answering anything
NextRequests ==
  \/ /\ requests < MaxRequests
     /\ \E h \in Slots, user \in RequestUsers, body \in RequestBodies :
          CreateBegin(h, user, body)
  \/ \E h \in Slots, ok \in BOOLEAN : CreatePrecheck(h, ok)
  \/ \E h \in Slots : CreateAfterExec(h)
  \/ \E h \in Slots, answer \in LookupAnswers : ExecLookup(h, answer)
  \/ \E h \in Slots, answer \in RootAnswers : ExecRootFolder(h, answer)
  \/ \E h \in Slots, answer \in ProfileAnswers : ExecQualityProfile(h, answer)
  \/ \E h \in Slots, answer \in AddAnswers : ExecAdd(h, answer)

SpecRequests == InitRequests /\ [][NextRequests]_vars

\* ---------------------------------- approve, reject, delete of requests
\* the handlers of the moderation specification
ModSlots == 1..MaxOverlap

\* index.js:187-194, two ordinary requesters on different primary servers,
\* one requester who may add directly, and an administrator
Members ==
  { [id |-> "u1", role |-> "user", canAddDirectly |-> FALSE,
     primaryServerId |-> "s1"],
    [id |-> "u2", role |-> "user", canAddDirectly |-> FALSE,
     primaryServerId |-> "s2"],
    [id |-> "u3", role |-> "user", canAddDirectly |-> TRUE,
     primaryServerId |-> "s2"],
    [id |-> "a1", role |-> "admin", canAddDirectly |-> TRUE,
     primaryServerId |-> "s1"] }

\* requests.js:241-249, the bodies of the creates: a movie and a series
ModBodies == { b \in RequestBodies : b.contentType \in Kinds }

\* requests.js:440 and 520, req.body.notes
Notes == {NULL, "", "note"}

\* manager answers with at most one storage root or quality profile
OneRootAnswers == { a \in RootAnswers : a.ok <=> Len(a.list) = 1 }

OneProfileAnswers == { a \in ProfileAnswers : a.ok <=> Len(a.list) = 1 }

\* the slot a new request takes: the first one that is not in progress
FreeSlot(h) ==
  /\ handlers[h].pc \in {"idle", "responded"}
  /\ \A g \in DOMAIN handlers :
       g < h => handlers[g].pc \notin {"idle", "responded"}

\* an executor that returned without a remote call: its caller continues
\* before any other handler runs
Continuing(h) ==
  /\ handlers[h].pc \in {"exec", "approving"}
  /\ exec[h].pc = "returned"
  /\ exec[h].calls = <<>>

Quiet == \A h \in DOMAIN handlers : ~Continuing(h)

\* requests.js:431 etc., SELECT * FROM content_requests WHERE id = ?
RequestById(id) ==
  IF \E r \in content_requests : r.id = id
  THEN CHOOSE r \in content_requests : r.id = id
  ELSE NoRow

\* variant: the update leaves the processor and the notes as they are
UpdateRequest_stateOnly(id, status, by, notes) ==
  { IF r.id = id
    THEN [r EXCEPT !.status = status, !.processed_at = <<now>>]
    ELSE r : r \in content_requests }

\* requests.js:474-479 and 523-527, UPDATE content_requests SET status,
\* processed_at, processed_by, notes WHERE id = ?
UpdateRequest(id, status, by, notes) ==
  { IF r.id = id
    THEN [r EXCEPT !.status = status, !.processed_at = <<now>>,
                   !.processed_by = by,
                   !.notes = IF Truthy(notes) THEN notes ELSE NULL]
    ELSE r : r \in content_requests }

\* requests.js:456-472, the row of rss_items an approve inserts
ApprovedRow(id, request) ==
  [id |-> id, server_id |-> request.server_id,
   content_type |-> request.content_type, tmdb_id |-> request.tmdb_id]

\* variant: only a rejected record is refused
NotPending_rejectedOnly(request) == request.status = "rejected"

\* requests.js:436 and 516, the record is not in state pending
NotPending(request) == request.status # "pending"

\* variant: any signed-in user passes
IsAdmin_anyUser(user) == user.id # NULL

\* index.js:255-260, requireAdmin
IsAdmin(user) == user.id # NULL /\ user.role = "admin"

\* requests.js:429-454, an approve arrives: the admin test, the record and
\* its state, the server, and the executor call
ApproveBegin(h, user, id, notes) ==
  LET H == [NoHandler EXCEPT !.op = "approve", !.user = user,
                             !.target = id, !.notes = notes]
      request == RequestById(id)
      H1 == [H EXCEPT !.request = request, !.passed = TRUE]
  IN /\ handlers[h].pc \in {"idle", "responded"}
     /\ requests' = requests + 1
     /\ IF ~IsAdmin(user)
        THEN /\ handlers' = [handlers EXCEPT ![h] = Answer(H, 403, "", "")]
             /\ exec' = [exec EXCEPT ![h] = NoExec]
        ELSE IF request = NoRow
        THEN /\ handlers' = [handlers EXCEPT ![h] = Answer(H, 404, "", "")]
             /\ exec' = [exec EXCEPT ![h] = NoExec]
        ELSE IF NotPending(request)
        THEN /\ handlers' = [handlers EXCEPT ![h] =
                  Answer([H EXCEPT !.request = request], 400, "", "")]
             /\ exec' = [exec EXCEPT ![h] = NoExec]
        ELSE IF HasServer(request.server_id)
        THEN /\ handlers' = [handlers EXCEPT ![h] =
                  [H1 EXCEPT !.pc = "approving",
                             !.server = ServerRow(request.server_id),
                             !.execCalls = @ + 1]]
             /\ exec' = [exec EXCEPT ![h] =
                  ExecStart(request.content_type,
                            ServerRow(request.server_id),
                            request.tmdb_id, request.title)]
        ELSE /\ handlers' = [handlers EXCEPT ![h] =
                  [H1 EXCEPT !.pc = "approving"]]
             /\ exec' = [exec EXCEPT ![h] =
                  [NoExec EXCEPT !.pc = "returned"]]
     /\ UNCHANGED <<now, ticks, plex_servers, rss_items, availabilityCache,
                    req, enrich, lastArrDone, searches, adminOps, probe,
                    content_requests, managers, uuids, runs,
                    settings, users, reply>>

\* requests.js:474-479, the state write of approve
ApproveUpdate(H) ==
  UpdateRequest(H.request.id, "approved", H.user.id, H.notes)

\* requests.js:456-502, the executor has returned: the tracked item is
\* inserted, the record is updated and the handler answers; an insert that
\* violates UNIQUE(server_id, content_type, tmdb_id) or the foreign key
\* throws
ApproveAfterExec(h) ==
  LET H == handlers[h]
      row == ApprovedRow(uuids + 1, H.request)
      arrResult == exec[h].outcome
  IN /\ H.pc = "approving"
     /\ exec[h].pc \in {"returned", "threw"}
     /\ IF exec[h].pc = "threw"
        THEN /\ handlers' = [handlers EXCEPT ![h] = Answer(H, 500, "", "")]
             /\ UNCHANGED <<rss_items, content_requests, uuids>>
        ELSE /\ uuids' = uuids + 1
             /\ IF UniqueViolation(row) \/ ~HasServer(row.server_id)
                THEN /\ handlers' = [handlers EXCEPT ![h] =
                          Answer(H, 500, "", "")]
                     /\ UNCHANGED <<rss_items, content_requests>>
                ELSE /\ rss_items' = rss_items \cup {row}
                     /\ content_requests' = ApproveUpdate(H)
                     /\ handlers' = [handlers EXCEPT ![h] =
                          Answer([H EXCEPT !.tracked = {row}], 200, "",
                                 IF arrResult.success THEN ""
                                 ELSE "integration failed")]
     /\ UNCHANGED <<now, ticks, plex_servers, availabilityCache, req, enrich,
                    lastArrDone, searches, adminOps, probe, managers, exec,
                    requests, runs,
                    settings, users, reply>>

\* requests.js:509-540, a reject, from arrival to answer
RejectRequest(h, user, id, notes) ==
  LET H == [NoHandler EXCEPT !.op = "reject", !.user = user,
                             !.target = id, !.notes = notes]
      request == RequestById(id)
  IN /\ handlers[h].pc \in {"idle", "responded"}
     /\ requests' = requests + 1
     /\ exec' = [exec EXCEPT ![h] = NoExec]
     /\ IF ~IsAdmin(user)
        THEN /\ handlers' = [handlers EXCEPT ![h] = Answer(H, 403, "", "")]
             /\ UNCHANGED content_requests
        ELSE IF request = NoRow
        THEN /\ handlers' = [handlers EXCEPT ![h] = Answer(H, 404, "", "")]
             /\ UNCHANGED content_requests
        ELSE IF NotPending(request)
        THEN /\ handlers' = [handlers EXCEPT ![h] =
                  Answer([H EXCEPT !.request = request], 400, "", "")]
             /\ UNCHANGED content_requests
        ELSE /\ content_requests' =
                  UpdateRequest(request.id, "rejected", user.id, notes)
             /\ handlers' = [handlers EXCEPT ![h] =
                  Answer([H EXCEPT !.request = request, !.passed = TRUE],
                         200, "", "")]
     /\ UNCHANGED <<now, ticks, plex_servers, rss_items, availabilityCache,
                    req, enrich, lastArrDone, searches, adminOps, probe,
                    managers, uuids, runs,
                    settings, users, reply>>

\* variant: a requester may delete any of their own records
DeleteRefusal_ownAny(user, request) ==
  IF user.role = "admin" THEN 0
  ELSE IF request.user_id # user.id THEN 403
  ELSE 0

\* requests.js:553-561, the code with which a delete is refused, 0 if it is
\* allowed
DeleteRefusal(user, request) ==
  IF user.role = "admin" THEN 0
  ELSE IF request.user_id # user.id THEN 403
  ELSE IF request.status # "pending" THEN 400
  ELSE 0

\* requests.js:546-576, a delete, from arrival to answer
DeleteRequest(h, user, id) ==
  LET H == [NoHandler EXCEPT !.op = "delete", !.user = user, !.target = id]
      request == RequestById(id)
      H1 == [H EXCEPT !.request = request]
  IN /\ handlers[h].pc \in {"idle", "responded"}
     /\ requests' = requests + 1
     /\ exec' = [exec EXCEPT ![h] = NoExec]
     /\ IF request = NoRow
        THEN /\ handlers' = [handlers EXCEPT ![h] = Answer(H, 404, "", "")]
             /\ UNCHANGED content_requests
        ELSE IF DeleteRefusal(user, request) # 0
        THEN /\ handlers' = [handlers EXCEPT ![h] =
                  Answer(H1, DeleteRefusal(user, request), "", "")]
             /\ UNCHANGED content_requests
        ELSE /\ content_requests' =
                  { r \in content_requests : r.id # request.id }
             /\ handlers' = [handlers EXCEPT ![h] =
                  Answer([H1 EXCEPT !.passed = TRUE], 200, "", "")]
     /\ UNCHANGED <<now, ticks, plex_servers, rss_items, availabilityCache,
                    req, enrich, lastArrDone, searches, adminOps, probe,
                    managers, uuids, runs,
                    settings, users, reply>>

InitModeration ==
  /\ SearchAtRest
  /\ plex_servers = Registry
  /\ rss_items = {}
  /\ probe = NoProbe
  /\ runs = NoRuns
  /\ Installed
  /\ content_requests = {}
  /\ managers = NoManagers
  /\ exec = [h \in ModSlots |-> NoExec]
  /\ handlers = [h \in ModSlots |-> NoHandler]
  /\ uuids = 0
  /\ requests = 0

\* Up to MaxCalls requests to /api/requests by the members, up to
\* MaxOverlap of them in progress at once
NextModeration ==
  \/ /\ requests < MaxCalls /\ Quiet
     /\ \E h \in ModSlots :
          /\ FreeSlot(h)
          /\ \/ \E user \in Members, body \in ModBodies :
                  CreateBegin(h, user, body)
             \/ \E user \in Members, id \in 1..uuids, notes \in Notes :
                  ApproveBegin(h, user, id, notes)
             \/ \E user \in Members, id \in 1..uuids, notes \in Notes :
                  RejectRequest(h, user, id, notes)
             \/ \E user \in Members, id \in 1..uuids :
                  DeleteRequest(h, user, id)
  \/ /\ Quiet
     /\ \E h \in ModSlots :
          \/ \E ok \in BOOLEAN : CreatePrecheck(h, ok)
          \/ \E answer \in LookupAnswers : ExecLookup(h, answer)
          \/ \E answer \in OneRootAnswers : ExecRootFolder(h, answer)
          \/ \E answer \in OneProfileAnswers : ExecQualityProfile(h, answer)
          \/ \E answer \in AddAnswers : ExecAdd(h, answer)
  \/ \E h \in ModSlots : CreateAfterExec(h) \/ ApproveAfterExec(h)

SpecModeration == InitModeration /\ [][NextModeration]_vars

\* ------------------------------------ aggregation after a direct add
\* search.js:551-554, what the movie manager of a server answers to GET
\* /api/v3/movie and GET /api/v3/queue, from what it holds
ManagerReport(sid) ==
  LET list == managers[sid]["movie"]
  IN [movies |-> { [tmdbId |-> list[n].tmdbId, id |-> n,
                    hasFile |-> list[n].hasFile,
                    monitored |-> list[n].monitored,
                    status |-> list[n].status] : n \in 1..Len(list) },
      queue |-> [hasRecords |-> TRUE,
                 records |-> { n \in 1..Len(list) : list[n].queued }]]

\* how a manager check of server sid ends: with an error or with the report
ReportOutcomes(sid) ==
  { [ok |-> FALSE, answer |-> NoAnswer],
    [ok |-> TRUE, answer |-> ManagerReport(sid)] }

\* the media server's answers: an error, or sections without the item
AbsentPlexOutcomes == { o \in FewPlexOutcomes : ~o.ok \/ o.sections = <<>> }

\* the searches for the movie 603
MovieBatches == { b \in DetailBatches : b[1].media_type = "movie" }

\* index.js:187-194, a requester on server s1 who may add directly
DirectUsers ==
  { u \in RequestUsers : u.canAddDirectly /\ u.primaryServerId = "s1" }

\* the create bodies for the movie 603
MovieBodies ==
  { b \in RequestBodies : b.contentType = "movie" /\ b.tmdbId = 603 }

\* the manager of s1 holds the movie 603, monitored, or holds nothing
HeldManagers ==
  { NoManagers,
    [NoManagers EXCEPT !["s1"]["movie"] = <<NewEntry(603, "The Matrix")>>] }

\* the requester reads the status shown for the item before adding it
Observe ==
  /\ req.state = "responded" /\ req.code = 200
  /\ requests = 0
  /\ probe = NoProbe
  /\ probe' = [NoProbe EXCEPT !.fn = "shown",
                              !.tmdbId = req.results[1].id,
                              !.status = req.results[1].availability.status]
  /\ UNCHANGED <<now, ticks, plex_servers, rss_items, availabilityCache, req,
                 enrich, lastArrDone, searches, adminOps, content_requests,
                 managers, exec, handlers, uuids, requests, runs,
                    settings, users, reply>>

\* a direct add of the item on the server has answered with success
AddedDirectly(sid, tmdbId) ==
  \E h \in DOMAIN handlers :
    /\ handlers[h].op = "create" /\ handlers[h].pc = "responded"
    /\ handlers[h].code = 201 /\ handlers[h].status = "added"
    /\ handlers[h].warning = ""
    /\ handlers[h].server.id = sid
    /\ handlers[h].body.contentType = "movie"
    /\ handlers[h].body.tmdbId = tmdbId

\* the manager puts an item that was added into its download queue
ManagerQueues(sid, n) ==
  /\ n \in 1..Len(managers[sid]["movie"])
  /\ AddedDirectly(sid, managers[sid]["movie"][n].tmdbId)
  /\ ~managers[sid]["movie"][n].queued
  /\ managers' = [managers EXCEPT ![sid]["movie"][n] =
       [@ EXCEPT !.queued = TRUE, !.since = searches]]
  /\ UNCHANGED <<now, ticks, plex_servers, rss_items, availabilityCache, req,
                 enrich, lastArrDone, searches, adminOps, probe,
                 content_requests, exec, handlers, uuids, requests, runs,
                    settings, users, reply>>

InitFollowUp ==
  /\ SearchAtRest
  /\ plex_servers = Registry
  /\ rss_items = {}
  /\ probe = NoProbe
  /\ runs = NoRuns
  /\ Installed
  /\ content_requests = {}
  /\ managers \in HeldManagers
  /\ exec = [h \in Slots |-> NoExec]
  /\ handlers = [h \in Slots |-> NoHandler]
  /\ uuids = 0
  /\ requests = 0

\* Searches for the movie 603 by a user of server s1, a direct add of it by
\* that user, and the manager queueing it, while the clock advances
NextFollowUp ==
  \/ \E d \in {1, CACHE_TTL - 1} : ticks < MaxTicks /\ Tick(d)
  \/ /\ req.state # "running"
     /\ searches < MaxLookups
     /\ \E filtered \in MovieBatches : \E user \in SingleServerUsers :
          Start("movies", user, filtered)
  \/ PlexBegin("movie")
  \/ \E outcome \in AbsentPlexOutcomes : PlexComplete("movie", outcome)
  \/ ArrBegin("movie")
  \/ /\ enrich["movie"].pc = "arr_wait"
     /\ \E outcome \in ReportOutcomes("s1") : ArrComplete("movie", outcome)
  \/ Decide("movie")
  \/ Respond
  \/ Observe
  \/ \E h \in Slots, user \in DirectUsers, body \in MovieBodies :
       handlers[h].op = "none" /\ CreateBegin(h, user, body)
  \/ \E h \in Slots, ok \in BOOLEAN : CreatePrecheck(h, ok)
  \/ \E h \in Slots : CreateAfterExec(h)
  \/ \E h \in Slots, answer \in LookupAnswers : ExecLookup(h, answer)
  \/ \E h \in Slots, answer \in OneRootAnswers : ExecRootFolder(h, answer)
  \/ \E h \in Slots, answer \in OneProfileAnswers :
       ExecQualityProfile(h, answer)
  \/ \E h \in Slots, answer \in AddAnswers : ExecAdd(h, answer)
  \/ \E n \in 1..MaxRequests : ManagerQueues("s1", n)

SpecFollowUp == InitFollowUp /\ [][NextFollowUp]_vars

\* --------------------------------------- concurrent checker calls
RunIds == 1..MaxRuns

\* search.js:408 and 539, the cache key of a check of the movie 603 on s1
RunKey(fn) ==
  IF fn = "plex" THEN PlexKey("movie", "s1", "The Matrix", "1999")
  ELSE RadarrKey("s1", 603)

\* the runs that have written an entry so far
Writers == { r \in RunIds : runs[r].wrote # <<>> }

\* search.js:406-426 and 537-549, a checker is called: it returns the cached
\* data of a fresh entry, or issues its remote calls
RunBegin(r, fn) ==
  LET key == RunKey(fn)
      R == [NoRun EXCEPT !.fn = fn, !.key = key,
                         !.began = Cardinality(Writers)]
  IN /\ runs[r].pc = "idle"
     /\ \A q \in RunIds : q < r => runs[q].pc # "idle"
     /\ runs' = [runs EXCEPT ![r] =
          IF CacheFresh(availabilityCache, key, now)
          THEN [R EXCEPT !.pc = "done", !.via = "cache",
                         !.returned = <<availabilityCache[key].data>>]
          ELSE [R EXCEPT !.pc = "wait"]]
     /\ UNCHANGED <<now, ticks, plex_servers, rss_items, availabilityCache,
                    req, enrich, lastArrDone, searches, adminOps, probe,
                    content_requests, managers, exec, handlers, uuids,
                    requests, settings, users, reply>>

\* search.js:420-466, the remote calls of a library check end
RunPlexComplete(r, outcome) ==
  LET R == runs[r]
      result == PlexScan(outcome.sections, "The Matrix", "1999")
  IN /\ R.pc = "wait" /\ R.fn = "plex"
     /\ IF outcome.ok
        THEN /\ availabilityCache' =
                  CacheSet(availabilityCache, R.key, result, now)
             /\ runs' = [runs EXCEPT ![r] =
                  [R EXCEPT !.pc = "done", !.via = "remote",
                            !.wrote = <<[data |-> result,
                                         timestamp |-> now]>>,
                            !.order = Cardinality(Writers) + 1,
                            !.returned = <<result>>]]
        ELSE /\ runs' = [runs EXCEPT ![r] =
                  [R EXCEPT !.pc = "done", !.via = "error",
                            !.returned = <<PlexCatch.data>>]]
             /\ UNCHANGED availabilityCache
     /\ UNCHANGED <<now, ticks, plex_servers, rss_items, req, enrich,
                    lastArrDone, searches, adminOps, probe,
                    content_requests, managers, exec, handlers, uuids,
                    requests, settings, users, reply>>

\* search.js:551-578, the remote calls of a movie manager check end
RunArrComplete(r, outcome) ==
  LET R == runs[r]
      status == RadarrClassify(outcome.answer, 603)
  IN /\ R.pc = "wait" /\ R.fn = "radarr"
     /\ IF outcome.ok
        THEN /\ availabilityCache' =
                  CacheSet(availabilityCache, R.key, status, now)
             /\ runs' = [runs EXCEPT ![r] =
                  [R EXCEPT !.pc = "done", !.via = "remote",
                            !.wrote = <<[data |-> status,
                                         timestamp |-> now]>>,
                            !.order = Cardinality(Writers) + 1,
                            !.returned = <<status>>]]
        ELSE /\ runs' = [runs EXCEPT ![r] =
                  [R EXCEPT !.pc = "done", !.via = "error",
                            !.returned = <<ArrCatch.data>>]]
             /\ UNCHANGED availabilityCache
     /\ UNCHANGED <<now, ticks, plex_servers, rss_items, req, enrich,
                    lastArrDone, searches, adminOps, probe,
                    content_requests, managers, exec, handlers, uuids,
                    requests, settings, users, reply>>

InitRace ==
  /\ SearchAtRest
  /\ plex_servers = Registry
  /\ rss_items = {}
  /\ probe = NoProbe
  /\ RequestsAtRest
  /\ runs = NoRuns
  /\ Installed

\* Up to MaxRuns calls of the two checkers for the movie 603 on server s1,
\* in any interleaving, while the clock advances
NextRace ==
  \/ \E d \in {1, CACHE_TTL - 1} : ticks < MaxTicks /\ Tick(d)
  \/ \E r \in RunIds, fn \in {"plex", "radarr"} : RunBegin(r, fn)
  \/ \E r \in RunIds, outcome \in FewPlexOutcomes : RunPlexComplete(r, outcome)
  \/ \E r \in RunIds, outcome \in FewArrOutcomes : RunArrComplete(r, outcome)

SpecRace == InitRace /\ [][NextRace]_vars

\* ------------------------------ requests about one item, interleaved
\* index.js:187-194, a requester and an administrator of server s1
OneServerMembers ==
  { u \in Members : u.primaryServerId = "s1" /\ u.id \in {"u1", "a1"} }

\* Up to MaxSteps creates, approves, rejects and deletes about the movie
\* 603 on server s1, up to MaxOverlap of them in progress at once
NextInterleave ==
  \/ /\ requests < MaxSteps /\ Quiet
     /\ \E h \in ModSlots :
          /\ FreeSlot(h)
          /\ \/ \E user \in OneServerMembers, body \in MovieBodies :
                  CreateBegin(h, user, body)
             \/ \E user \in OneServerMembers, id \in 1..uuids :
                  ApproveBegin(h, user, id, NULL)
             \/ \E user \in OneServerMembers, id \in 1..uuids :
                  RejectRequest(h, user, id, NULL)
             \/ \E user \in OneServerMembers, id \in 1..uuids :
                  DeleteRequest(h, user, id)
  \/ /\ Quiet
     /\ \E h \in ModSlots :
          \/ \E ok \in BOOLEAN : CreatePrecheck(h, ok)
          \/ \E answer \in LookupAnswers : ExecLookup(h, answer)
          \/ \E answer \in OneRootAnswers : ExecRootFolder(h, answer)
          \/ \E answer \in OneProfileAnswers : ExecQualityProfile(h, answer)
          \/ \E answer \in AddAnswers : ExecAdd(h, answer)
  \/ \E h \in ModSlots : CreateAfterExec(h) \/ ApproveAfterExec(h)

SpecInterleave == InitModeration /\ [][NextInterleave]_vars

\* --------------------------------------- the pre-check of a create
\* requests.js:276-280, what the movie manager of s1 holds when the create
\* arrives: nothing, or the movie 603 with or without its file, monitored or
\* not, released or not
ReportedManagers ==
  {NoManagers} \cup
  { [NoManagers EXCEPT !["s1"]["movie"] =
       <<[NewEntry(603, "The Matrix") EXCEPT
            !.hasFile = f, !.monitored = mon, !.status = st]>>] :
      f \in BOOLEAN, mon \in BOOLEAN, st \in {"released", "announced"} }

\* index.js:187-194, the requesters bound to s1, direct-authorized or not
PrimaryUsers == { u \in RequestUsers : u.primaryServerId = "s1" }

InitPrecheck ==
  /\ SearchAtRest
  /\ plex_servers = Registry
  /\ rss_items = {}
  /\ probe = NoProbe
  /\ runs = NoRuns
  /\ Installed
  /\ content_requests = {}
  /\ managers \in ReportedManagers
  /\ exec = [h \in Slots |-> NoExec]
  /\ handlers = [h \in Slots |-> NoHandler]
  /\ uuids = 0
  /\ requests = 0

\* Up to MaxRequests creates for the movie 603 by requesters of s1, the
\* pre-check call and the executor's calls answered or failing
NextPrecheck ==
  \/ /\ requests < MaxRequests
     /\ \E h \in Slots, user \in PrimaryUsers, body \in MovieBodies :
          CreateBegin(h, user, body)
  \/ \E h \in Slots, ok \in BOOLEAN : CreatePrecheck(h, ok)
  \/ \E h \in Slots : CreateAfterExec(h)
  \/ \E h \in Slots, answer \in LookupAnswers : ExecLookup(h, answer)
  \/ \E h \in Slots, answer \in OneRootAnswers : ExecRootFolder(h, answer)
  \/ \E h \in Slots, answer \in OneProfileAnswers :
       ExecQualityProfile(h, answer)
  \/ \E h \in Slots, answer \in AddAnswers : ExecAdd(h, answer)

SpecPrecheck == InitPrecheck /\ [][NextPrecheck]_vars

\* ------------------------------------- setup wizard and administration
\* admin.js:56 and auth.js:322, the keys no request may write
ProtectedKeys == {"encryption_key", "jwt_secret", "setup_complete"}

\* the values a request may send for a setting
SettingValues == {"true", "false"}

\* the ids crypto.randomUUID() may give to an account
AccountIds == {"a1", "u1", "u2"}

\* req.body.role of a user create or update: absent, or a role
BodyRoles == {NULL, "user", "admin"}

\* the settings and the accounts a backup file may carry
BackupSettings ==
  {<<>>} \cup { <<[key |-> k, value |-> v]>> :
                  k \in SettingKeys, v \in SettingValues }

BackupServers == {{}} \cup { {r} : r \in Registry }

BackupUsers ==
  {{}} \cup { {[id |-> i, role |-> r]} :
                i \in AccountIds, r \in {"user", "admin"} }

Reply(op, code, caller) == [op |-> op, code |-> code, caller |-> caller]

\* variant: the wizard stays open after setup
SetupRefused_never(s) == FALSE

\* middleware/setup.js:33-47, requireNoSetup refuses the request
SetupRefused(s) == s["setup_complete"] = "true"

\* auth.js:26-32 and setup.js:173-175, sessions exist only once setup is
\* complete: login answers 503 before, and the first token is issued by
\* POST /api/setup/complete
LoginAllowed(s) == s["setup_complete"] = "true"

\* setup.js:337-343 and auth.js:319-325, INSERT OR REPLACE of every setting
\* of the backup whose key is not protected
RECURSIVE ImportSettings(_, _)
ImportSettings(s, list) ==
  IF list = <<>> THEN s
  ELSE LET first == list[1]
           s1 == IF first.key \in ProtectedKeys THEN s
                 ELSE [s EXCEPT ![first.key] = first.value]
       IN ImportSettings(s1, Tail(list))

\* users WHERE role = 'admin'
Admins(table) == { u \in table : u.role = "admin" }

\* setup.js:19-65, POST /api/setup/admin
SetupAdmin(valid, id) ==
  /\ id \notin { u.id : u \in users }
  /\ IF SetupRefused(settings)
     THEN reply' = Reply("setup_admin", 403, NULL) /\ UNCHANGED users
     ELSE IF ~valid
     THEN reply' = Reply("setup_admin", 400, NULL) /\ UNCHANGED users
     ELSE IF users # {}
     THEN reply' = Reply("setup_admin", 403, NULL) /\ UNCHANGED users
     ELSE /\ users' = {[id |-> id, role |-> "admin"]}
          /\ reply' = Reply("setup_admin", 200, NULL)
  /\ UNCHANGED <<settings, plex_servers, rss_items, content_requests>>
     /\ UNCHANGED <<now, ticks, availabilityCache, req, enrich, lastArrDone,
                    searches, adminOps, probe, managers, exec, handlers,
                    uuids, requests, runs>>

\* setup.js:71-89, POST /api/setup/tmdb
SetupTmdb(apiKey) ==
  /\ IF SetupRefused(settings)
     THEN reply' = Reply("setup_tmdb", 403, NULL) /\ UNCHANGED settings
     ELSE IF ~Truthy(apiKey)
     THEN reply' = Reply("setup_tmdb", 400, NULL) /\ UNCHANGED settings
     ELSE /\ settings' = [settings EXCEPT !["tmdb_api_key"] = apiKey]
          /\ reply' = Reply("setup_tmdb", 200, NULL)
  /\ UNCHANGED <<users, plex_servers, rss_items, content_requests>>
     /\ UNCHANGED <<now, ticks, availabilityCache, req, enrich, lastArrDone,
                    searches, adminOps, probe, managers, exec, handlers,
                    uuids, requests, runs>>

\* setup.js:95-150, POST /api/setup/server
SetupServer(valid, row) ==
  /\ row.id \notin { r.id : r \in plex_servers }
  /\ IF SetupRefused(settings)
     THEN reply' = Reply("setup_server", 403, NULL) /\ UNCHANGED plex_servers
     ELSE IF ~valid
     THEN reply' = Reply("setup_server", 400, NULL) /\ UNCHANGED plex_servers
     ELSE /\ plex_servers' = plex_servers \cup {row}
          /\ reply' = Reply("setup_server", 200, NULL)
  /\ UNCHANGED <<settings, users, rss_items, content_requests>>
     /\ UNCHANGED <<now, ticks, availabilityCache, req, enrich, lastArrDone,
                    searches, adminOps, probe, managers, exec, handlers,
                    uuids, requests, runs>>

\* setup.js:156-200, POST /api/setup/complete; the token is generated for
\* the first admin after the setting has been written
SetupComplete ==
  /\ IF SetupRefused(settings)
     THEN reply' = Reply("setup_complete", 403, NULL) /\ UNCHANGED settings
     ELSE IF users = {}
     THEN reply' = Reply("setup_complete", 400, NULL) /\ UNCHANGED settings
     ELSE IF settings["tmdb_api_key"] = NULL
     THEN reply' = Reply("setup_complete", 400, NULL) /\ UNCHANGED settings
     ELSE /\ settings' = [settings EXCEPT !["setup_complete"] = "true"]
          /\ reply' = Reply("setup_complete",
                            IF Admins(users) # {} THEN 200 ELSE 500, NULL)
  /\ UNCHANGED <<users, plex_servers, rss_items, content_requests>>
     /\ UNCHANGED <<now, ticks, availabilityCache, req, enrich, lastArrDone,
                    searches, adminOps, probe, managers, exec, handlers,
                    uuids, requests, runs>>

\* setup.js:206-305 and 448-485, the test and preview endpoints of the wizard
SetupTest ==
  /\ reply' = Reply("setup_test",
                    IF SetupRefused(settings) THEN 403 ELSE 200, NULL)
  /\ UNCHANGED <<settings, users, plex_servers, rss_items, content_requests>>
     /\ UNCHANGED <<now, ticks, availabilityCache, req, enrich, lastArrDone,
                    searches, adminOps, probe, managers, exec, handlers,
                    uuids, requests, runs>>

\* setup.js:311-442, POST /api/setup/restore: the settings and the servers of
\* the backup are imported in one transaction
SetupRestore(valid, list, rows) ==
  /\ IF SetupRefused(settings)
     THEN /\ reply' = Reply("setup_restore", 403, NULL)
          /\ UNCHANGED <<settings, plex_servers>>
     ELSE IF ~valid \/ Admins(users) = {}
     THEN /\ reply' = Reply("setup_restore", 400, NULL)
          /\ UNCHANGED <<settings, plex_servers>>
     ELSE /\ settings' = ImportSettings(settings, list)
          /\ plex_servers' =
               { r \in plex_servers : r.id \notin { q.id : q \in rows } }
                 \cup rows
          /\ reply' = Reply("setup_restore", 200, NULL)
  /\ UNCHANGED <<users, rss_items, content_requests>>
     /\ UNCHANGED <<now, ticks, availabilityCache, req, enrich, lastArrDone,
                    searches, adminOps, probe, managers, exec, handlers,
                    uuids, requests, runs>>

\* admin.js:47-75, PUT /api/admin/settings
PutSettings(caller, key, value) ==
  /\ LoginAllowed(settings)
  /\ caller \in users
  /\ IF ~IsAdmin(caller)
     THEN reply' = Reply("put_settings", 403, caller.id) /\ UNCHANGED settings
     ELSE IF key = ""
     THEN reply' = Reply("put_settings", 400, caller.id) /\ UNCHANGED settings
     ELSE IF key \in ProtectedKeys
     THEN reply' = Reply("put_settings", 403, caller.id) /\ UNCHANGED settings
     ELSE /\ settings' = [settings EXCEPT ![key] = value]
          /\ reply' = Reply("put_settings", 200, caller.id)
  /\ UNCHANGED <<users, plex_servers, rss_items, content_requests>>
     /\ UNCHANGED <<now, ticks, availabilityCache, req, enrich, lastArrDone,
                    searches, adminOps, probe, managers, exec, handlers,
                    uuids, requests, runs>>

\* auth.js:290-450, POST /api/backup/import: in replace mode everything but
\* the caller's account is deleted first; accounts are added with INSERT OR
\* IGNORE
BackupImport(caller, replace, list, accounts) ==
  LET kept == IF replace THEN {caller} ELSE users
      added == { a \in accounts : a.id \notin { u.id : u \in kept } }
  IN /\ LoginAllowed(settings)
     /\ caller \in users
     /\ IF ~IsAdmin(caller)
        THEN /\ reply' = Reply("backup_import", 403, caller.id)
             /\ UNCHANGED <<settings, users, plex_servers, rss_items,
                            content_requests>>
        ELSE /\ settings' = ImportSettings(settings, list)
             /\ users' = kept \cup added
             /\ IF replace
                THEN /\ plex_servers' = {}
                     /\ rss_items' = {}
                     /\ content_requests' = {}
                ELSE UNCHANGED <<plex_servers, rss_items, content_requests>>
             /\ reply' = Reply("backup_import", 200, caller.id)
     /\ UNCHANGED <<now, ticks, availabilityCache, req, enrich, lastArrDone,
                    searches, adminOps, probe, managers, exec, handlers,
                    uuids, requests, runs>>

\* users.js:53-121, POST /api/users
UserCreate(caller, valid, id, role) ==
  /\ LoginAllowed(settings)
  /\ caller \in users
  /\ id \notin { u.id : u \in users }
  /\ IF ~IsAdmin(caller)
     THEN reply' = Reply("user_create", 403, caller.id) /\ UNCHANGED users
     ELSE IF ~valid
     THEN reply' = Reply("user_create", 400, caller.id) /\ UNCHANGED users
     ELSE /\ users' = users \cup
               {[id |-> id, role |-> IF Truthy(role) THEN role ELSE "user"]}
          /\ reply' = Reply("user_create", 201, caller.id)
  /\ UNCHANGED <<settings, plex_servers, rss_items, content_requests>>
     /\ UNCHANGED <<now, ticks, availabilityCache, req, enrich, lastArrDone,
                    searches, adminOps, probe, managers, exec, handlers,
                    uuids, requests, runs>>

\* users.js:165-256, PUT /api/users/:id; role NULL stands for a body without
\* a role
UserUpdate(caller, id, role) ==
  LET isAdmin == caller.role = "admin"
      isOwnProfile == id = caller.id
  IN /\ LoginAllowed(settings)
     /\ caller \in users
     /\ IF ~isAdmin /\ ~isOwnProfile
        THEN reply' = Reply("user_update", 403, caller.id) /\ UNCHANGED users
        ELSE IF id \notin { u.id : u \in users }
        THEN reply' = Reply("user_update", 404, caller.id) /\ UNCHANGED users
        ELSE /\ users' = IF isAdmin /\ role # NULL
                         THEN { IF u.id = id THEN [u EXCEPT !.role = role]
                                ELSE u : u \in users }
                         ELSE users
             /\ reply' = Reply("user_update", 200, caller.id)
     /\ UNCHANGED <<settings, plex_servers, rss_items, content_requests>>
     /\ UNCHANGED <<now, ticks, availabilityCache, req, enrich, lastArrDone,
                    searches, adminOps, probe, managers, exec, handlers,
                    uuids, requests, runs>>

\* users.js:270-281, a delete of the caller's own account or of the last
\* admin is refused
UserDeleteRefused(caller, id) ==
  \/ id = caller.id
  \/ /\ \E u \in Admins(users) : u.id = id
     /\ Cardinality(Admins(users)) <= 1

\* users.js:262-295, DELETE /api/users/:id
UserDelete(caller, id) ==
  /\ LoginAllowed(settings)
  /\ caller \in users
  /\ IF ~IsAdmin(caller)
     THEN reply' = Reply("user_delete", 403, caller.id) /\ UNCHANGED users
     ELSE IF id \notin { u.id : u \in users }
     THEN reply' = Reply("user_delete", 404, caller.id) /\ UNCHANGED users
     ELSE IF UserDeleteRefused(caller, id)
     THEN reply' = Reply("user_delete", 400, caller.id) /\ UNCHANGED users
     ELSE /\ users' = { u \in users : u.id # id }
          /\ reply' = Reply("user_delete", 200, caller.id)
  /\ UNCHANGED <<settings, plex_servers, rss_items, content_requests>>
     /\ UNCHANGED <<now, ticks, availabilityCache, req, enrich, lastArrDone,
                    searches, adminOps, probe, managers, exec, handlers,
                    uuids, requests, runs>>

\* a fresh database: no account, no server, no setting
InitInstall ==
  /\ SearchAtRest
  /\ plex_servers = {}
  /\ rss_items = {}
  /\ probe = NoProbe
  /\ runs = NoRuns
  /\ RequestsAtRest
  /\ settings = NoSettings
  /\ users = {}
  /\ reply = NoReply

\* The wizard, then the administration of settings, backups and accounts,
\* requests arriving in any order
NextInstall ==
  \/ \E valid \in BOOLEAN, id \in AccountIds : SetupAdmin(valid, id)
  \/ \E apiKey \in {"", "key"} : SetupTmdb(apiKey)
  \/ \E valid \in BOOLEAN, row \in Registry : SetupServer(valid, row)
  \/ SetupComplete
  \/ SetupTest
  \/ \E valid \in BOOLEAN, list \in BackupSettings, rows \in BackupServers :
       SetupRestore(valid, list, rows)
  \/ \E caller \in users, key \in SettingKeys \cup {""},
        value \in SettingValues : PutSettings(caller, key, value)
  \/ \E caller \in users, replace \in BOOLEAN, list \in BackupSettings,
        accounts \in BackupUsers : BackupImport(caller, replace, list, accounts)
  \/ \E caller \in users, valid \in BOOLEAN, id \in AccountIds,
        role \in BodyRoles : UserCreate(caller, valid, id, role)
  \/ \E caller \in users, id \in AccountIds, role \in BodyRoles :
       UserUpdate(caller, id, role)
  \/ \E caller \in users, id \in AccountIds : UserDelete(caller, id)

SpecInstall == InitInstall /\ [][NextInstall]_vars

\* ------------------------------------------------------------ properties
\* P holds of every enriched entry pushed by a loop or returned to the caller
ForAllEntries(P(_)) ==
  /\ \A k \in Kinds : \A n \in 1..Len(enrich[k].results) :
       P(enrich[k].results[n])
  /\ \A n \in 1..Len(req.results) : P(req.results[n])

\* some library check made for the entry reported the item present
AnyExists(e) ==
  \E n \in 1..Len(e.availability.plexChecks) :
    e.availability.plexChecks[n].exists

\* a tracked item for the entry's item and media kind was in rss_items
Tracked(e) ==
  \E r \in e.availability.rssSeen :
    r.tmdb_id = e.id /\ r.content_type = e.mediaType

ArrStatuses == {"queued", "missing", "unreleased", "downloaded"}

Statuses == ArrStatuses \cup {"available", "requested", "not_available"}

\* C1: an item that a library check reported present on one of the user's
\* servers has the status `available', whatever the manager status and the
\* tracked flag
C1_PresentIsAvailable ==
  LET P(e) == AnyExists(e) => e.availability.status = "available"
  IN ForAllEntries(P)

C1_Witness ==
  /\ req.state = "responded"
  /\ \E n \in 1..Len(req.results) :
       /\ AnyExists(req.results[n])
       /\ req.results[n].availability.arrStatus \in ArrStatuses
       /\ Tracked(req.results[n])
       /\ req.results[n].availability.status = "available"

\* C2: an item in no library whose manager check on the primary server gave a
\* status has that status, also when a tracked item exists for it
C2_ManagerStatusNext ==
  LET P(e) ==
        \A n \in 1..Len(e.availability.arrChecks) :
          LET c == e.availability.arrChecks[n]
          IN (/\ ~AnyExists(e)
              /\ c.server = req.user.primaryServerId
              /\ c.status # NULL)
             => (e.availability.status = c.status /\ c.status \in ArrStatuses)
  IN ForAllEntries(P)

C2_Witness ==
  /\ req.state = "responded"
  /\ \E n \in 1..Len(req.results) :
       /\ ~AnyExists(req.results[n])
       /\ Tracked(req.results[n])
       /\ Len(req.results[n].availability.arrChecks) = 1
       /\ req.results[n].availability.arrChecks[1].status = "missing"
       /\ req.results[n].availability.status = "missing"

\* C3: an item in no library and with no manager status is `requested' if a
\* tracked item exists for it and `not_available' otherwise
C3_RequestedOrNotAvailable ==
  LET P(e) ==
        (/\ ~AnyExists(e)
         /\ \A n \in 1..Len(e.availability.arrChecks) :
              e.availability.arrChecks[n].status = NULL)
        => e.availability.status =
             IF Tracked(e) THEN "requested" ELSE "not_available"
  IN ForAllEntries(P)

C3_Witness ==
  /\ req.state = "responded"
  /\ \E n, m \in 1..Len(req.results) :
       /\ Tracked(req.results[n])
       /\ req.results[n].availability.status = "requested"
       /\ ~Tracked(req.results[m])
       /\ req.results[m].availability.status = "not_available"

\* C4: the status `requested' and the tracked flag come only from a tracked
\* item of the same item and media kind on the user's primary server
C4_RequestedOnlyFromPrimary ==
  LET P(e) ==
        (e.availability.status = "requested" \/ e.availability.inRssFeed)
        => \E r \in e.availability.rssSeen :
             /\ r.server_id = req.user.primaryServerId
             /\ r.tmdb_id = e.id
             /\ r.content_type = e.mediaType
  IN ForAllEntries(P)

\* C5: per item, one library check against every bound server, in order, and
\* one manager check against the primary server and none against another
C5_FanOut ==
  LET P(e) ==
        /\ Len(e.availability.plexChecks) = Len(req.user.servers)
        /\ \A n \in 1..Len(e.availability.plexChecks) :
             e.availability.plexChecks[n].server = req.user.servers[n]
        /\ \A n \in 1..Len(e.availability.arrChecks) :
             e.availability.arrChecks[n].server = req.user.primaryServerId
        /\ req.user.primaryServerId # NULL
             => Len(e.availability.arrChecks) = 1
  IN ForAllEntries(P)

\* C6: while a remote call of one item is pending, the checks of every other
\* item of the batch have started
C6_AllItemsStarted ==
  (\E k \in Kinds : enrich[k].pc \in {"plex_wait", "arr_wait"})
  => \A k \in Kinds : enrich[k].i >= Len(enrich[k].items)

\* C7: the response lists one entry per catalog item, in catalog order
C7_CatalogOrder ==
  (req.state = "responded" /\ req.code = 200)
  => /\ Len(req.results) = Len(req.filtered)
     /\ \A n \in 1..Len(req.filtered) :
          /\ req.results[n].id = req.filtered[n].id
          /\ req.results[n].mediaType = req.filtered[n].media_type
          /\ req.results[n].title = req.filtered[n].title

C7_Witness ==
  /\ req.state = "responded"
  /\ req.route = "multi"
  /\ Len(req.results) = 2
  /\ req.filtered[1].id = req.filtered[2].id
  /\ req.order[1] = <<req.filtered[2].media_type, req.filtered[2].id>>

\* C8: whatever remote calls fail, the search answers with a status for every
\* item; a failed library check counts as not present and a failed manager
\* check as no status
C8_FailuresAbsorbed ==
  LET P(a) ==
        /\ \A n \in 1..Len(a.plexChecks) :
             a.plexChecks[n].via = "error" => ~a.plexChecks[n].exists
        /\ \A n \in 1..Len(a.arrChecks) :
             a.arrChecks[n].via = "error" => a.arrChecks[n].status = NULL
      Q(e) == P(e.availability) /\ e.availability.status \in Statuses
  IN /\ ForAllEntries(Q)
     /\ \A k \in Kinds : P(enrich[k].result) /\ enrich[k].pc # "threw"
     /\ req.state = "responded"
          => (req.code = 200 /\ Len(req.results) = Len(req.filtered))
     /\ req.state = "running" => ENABLED (Check \/ Respond)

C8_Witness ==
  /\ req.state = "responded"
  /\ req.code = 200
  /\ \E n \in 1..Len(req.results) :
       LET a == req.results[n].availability
       IN /\ Len(a.plexChecks) = 2
          /\ a.plexChecks[1].via = "error"
          /\ a.plexChecks[2].via = "error"
          /\ Len(a.arrChecks) = 1
          /\ a.arrChecks[1].via = "error"
          /\ a.status = "not_available"

\* P holds of every finished check of the request, library and manager alike
ForAllChecks(P(_, _)) ==
  LET Q(a) ==
        /\ \A n \in 1..Len(a.plexChecks) :
             P(a.plexChecks[n], a.plexChecks[n].exists = a.plexChecks[n].seen.data.exists)
        /\ \A n \in 1..Len(a.arrChecks) :
             P(a.arrChecks[n], a.arrChecks[n].status = a.arrChecks[n].seen.data)
      R(e) == Q(e.availability)
  IN ForAllEntries(R) /\ \A k \in Kinds : Q(enrich[k].result)

\* C9 as stated: a checker that finds an entry younger than 5 minutes returns
\* it without a remote call; one that finds an entry of 5 minutes or more
\* does not return it and issues a remote call
C9_FreshnessWindow ==
  LET P(c, same) ==
        /\ (c.seen.hadEntry /\ c.seen.age < CACHE_TTL)
             => (c.via = "cache" /\ same)
        /\ (c.seen.hadEntry /\ c.seen.age >= CACHE_TTL)
             => c.via \in {"remote", "error"}
        /\ c.via = "cache" => (c.seen.hadEntry /\ c.seen.age < CACHE_TTL)
  IN ForAllChecks(P)

\* C9 amended: ... one that finds an entry of 5 minutes or more does not
\* return it, and issues a remote call if the server and its manager are
\* still configured
C9_FreshnessWindowConfigured ==
  LET P(c, same) ==
        /\ (c.seen.hadEntry /\ c.seen.age < CACHE_TTL)
             => (c.via = "cache" /\ same)
        /\ (c.seen.hadEntry /\ c.seen.age >= CACHE_TTL)
             => /\ c.via # "cache"
                /\ c.seen.configured => c.via \in {"remote", "error"}
        /\ c.via = "cache" => (c.seen.hadEntry /\ c.seen.age < CACHE_TTL)
  IN ForAllChecks(P)

C9_Witness ==
  /\ req.state = "responded"
  /\ \E n \in 1..Len(req.results) :
       LET a == req.results[n].availability
       IN /\ Len(a.plexChecks) = 1 /\ Len(a.arrChecks) = 1
          /\ a.plexChecks[1].seen.hadEntry
          /\ a.plexChecks[1].seen.age = CACHE_TTL
          /\ a.plexChecks[1].via = "remote"
          /\ a.arrChecks[1].seen.hadEntry
          /\ a.arrChecks[1].seen.age = CACHE_TTL - 1
          /\ a.arrChecks[1].via = "cache"

\* C10: a manager check on a key whose last remote exchange failed less than
\* 5 minutes ago returns no status without calling the manager again
C10_FailureCached ==
  LET P(a) ==
        \A n \in 1..Len(a.arrChecks) :
          (a.arrChecks[n].seen.sinceError >= 0
             /\ a.arrChecks[n].seen.sinceError < CACHE_TTL)
          => (a.arrChecks[n].via \notin {"remote", "error"}
                /\ a.arrChecks[n].status = NULL)
      Q(e) == P(e.availability)
  IN ForAllEntries(Q) /\ \A k \in Kinds : P(enrich[k].result)

\* C11: a library check that returns leaves its result in the cache under
\* its key, whichever way it returns
C11_EveryReturnCached ==
  [][\A k \in Kinds :
       Len(enrich'[k].result.plexChecks) > Len(enrich[k].result.plexChecks)
       => LET L == enrich[k]
              item == L.items[L.i]
              key == PlexKey(k, req.user.servers[L.s], item.title,
                             YearPart(item.release_date))
              c == enrich'[k].result.plexChecks[
                     Len(enrich'[k].result.plexChecks)]
          IN /\ key \in DOMAIN availabilityCache'
             /\ availabilityCache'[key].data.exists = c.exists]_vars

\* the movies of a manager's answer that carry the wanted catalog id
FoundMovies == { m \in probe.answer.movies : m.tmdbId = probe.tmdbId }

\* the movie is in the manager's active queue
InQueue(m) ==
  probe.answer.queue.hasRecords /\ m.id \in probe.answer.queue.records

\* C12: the movie status is `downloaded' for a movie with a file, `queued'
\* for a monitored one without file that is in the queue, `missing' or
\* `unreleased' by the manager's release status for a monitored one without
\* file that is not queued, and null for a movie the manager does not list
C12_MovieClassification ==
  (probe.fn = "radarr" /\ probe.done)
  => /\ FoundMovies = {} => probe.status = NULL
     /\ \A m \in FoundMovies :
          /\ m.hasFile => probe.status = "downloaded"
          /\ (~m.hasFile /\ m.monitored /\ InQueue(m))
               => probe.status = "queued"
          /\ (~m.hasFile /\ m.monitored /\ ~InQueue(m))
               => probe.status =
                    IF m.status = "released" THEN "missing" ELSE "unreleased"

C12_Witness ==
  /\ probe.fn = "radarr" /\ probe.done
  /\ \E m \in FoundMovies :
       ~m.hasFile /\ m.monitored /\ InQueue(m) /\ m.status = "released"
  /\ probe.status = "queued"

\* the series of a manager's answer that carry the catalog item's title
FoundSeries ==
  { x \in probe.series :
      \E it \in Catalog : /\ it.media_type = "tv"
                          /\ it.id = probe.tmdbId
                          /\ it.title = x.title }

\* C13: the series status is `downloaded' for a tracked series with all its
\* files and one of `queued', `missing', `unreleased' for a monitored one
\* without them
C13_SeriesClassifiedLikeMovies ==
  (probe.fn = "sonarr" /\ probe.done)
  => \A x \in FoundSeries :
       /\ x.percentOfEpisodes = 100 => probe.status = "downloaded"
       /\ (x.percentOfEpisodes # 100 /\ x.monitored)
            => probe.status \in {"queued", "missing", "unreleased"}

\* P holds of every finished manager check of the request
ForAllArrChecks(P(_)) ==
  LET Q(a) == \A n \in 1..Len(a.arrChecks) : P(a.arrChecks[n])
      R(e) == Q(e.availability)
  IN ForAllEntries(R) /\ \A k \in Kinds : Q(enrich[k].result)

\* the entries carry the null of a manager check that made no remote call
NullCarried ==
  LET P(e) ==
        (\A n \in 1..Len(e.availability.arrChecks) :
           e.availability.arrChecks[n].via = "none")
        => /\ e.availability.arrStatus = NULL
           /\ e.availability.status
                \in {"available", "requested", "not_available"}
  IN ForAllEntries(P) /\ \A k \in Kinds : enrich[k].pc # "threw"

\* C14 as stated: a manager check on a server that lacks the manager of the
\* item's kind returns null without a remote call and without an error, and
\* the aggregation goes on with that null
C14_NotConfigured ==
  LET P(c) ==
        ~c.seen.configured
        => (c.via \notin {"remote", "error"} /\ c.status = NULL)
  IN ForAllArrChecks(P) /\ NullCarried

\* C14 amended: ... makes no remote call and raises no error; it returns
\* null unless the cache holds an entry younger than 5 minutes for the key,
\* which it returns
C14_NotConfiguredUnlessCached ==
  LET P(c) ==
        ~c.seen.configured
        => /\ c.via \in {"none", "cache"}
           /\ c.via = "none" => c.status = NULL
           /\ c.via = "cache" <=> (c.seen.hadEntry /\ c.seen.age < CACHE_TTL)
           /\ c.via = "cache" => c.status = c.seen.data
  IN ForAllArrChecks(P) /\ NullCarried

C14_Witness ==
  /\ req.state = "responded"
  /\ req.code = 200
  /\ \E n \in 1..Len(req.results) :
       LET a == req.results[n].availability
       IN /\ Len(a.arrChecks) = 1
          /\ ~a.arrChecks[1].seen.configured
          /\ a.arrChecks[1].seen.hadEntry
          /\ a.arrChecks[1].via = "none"
          /\ a.arrChecks[1].status = NULL
          /\ a.status = "not_available"

\* C15: a record matches an item iff the titles are equal ignoring case
\* and, when both the item and the record have a year, the years are equal
C15_MatchPredicate ==
  (probe.fn = "match" /\ probe.done)
  => (probe.matched <=>
        /\ ToLowerCase(probe.record.title) = ToLowerCase(probe.title)
        /\ (Truthy(probe.year) /\ probe.record.year # NoNumber)
             => probe.record.year = ParseInt(probe.year))

\* the remote calls of the executor, in the order of the code
ExecCalls == <<"lookup", "rootfolder", "qualityprofile", "add">>

\* C16: the add call is issued only after the lookup found the item and the
\* storage roots and the quality profiles were read and are not empty, in
\* that order, and carries the first root and the first profile; a lookup
\* that finds nothing, an empty root list or an empty profile list ends the
\* executor with a failure and without an add call
C16_StepOrder ==
  \A h \in Slots :
    LET E == exec[h]
        added == \E n \in 1..Len(E.calls) : E.calls[n] = "add"
    IN /\ E.calls = SubSeq(ExecCalls, 1, Len(E.calls))
       /\ added => /\ E.lookup = "found"
                   /\ E.rootAnswer = "list" /\ E.roots # <<>>
                   /\ E.profileAnswer = "list" /\ E.profiles # <<>>
                   /\ E.body.rootFolderPath = E.roots[1]
                   /\ E.body.qualityProfileId = E.profiles[1]
       /\ (\/ E.lookup = "none"
           \/ E.rootAnswer = "empty"
           \/ E.profileAnswer = "empty")
          => (E.pc = "returned" /\ ~E.outcome.success /\ ~added)

C16_Witness ==
  \E h \in Slots :
    /\ exec[h].pc = "returned"
    /\ exec[h].calls = ExecCalls
    /\ Len(exec[h].roots) = 2
    /\ Len(exec[h].profiles) = 2
    /\ exec[h].body = [rootFolderPath |-> "/data/a", qualityProfileId |-> 4]
    /\ exec[h].outcome.success

\* C17: an executor call whose add the manager rejects because it holds the
\* item returns success with alreadyExists, and no manager ever holds two
\* entries for one item
C17_Idempotent ==
  /\ \A h \in Slots :
       (exec[h].pc = "returned" /\ exec[h].addAnswer = "exists")
       => /\ exec[h].outcome.success
          /\ exec[h].outcome.alreadyExists
  /\ \A sid \in Servers, k \in Kinds, it \in Catalog :
       Cardinality(Held(sid, k, it.id, it.title)) <= 1

C17_Witness ==
  \E h \in Slots :
    /\ requests = 2
    /\ exec[h].pc = "returned"
    /\ exec[h].addAnswer = "exists"
    /\ exec[h].outcome.success /\ exec[h].outcome.alreadyExists
    /\ Cardinality(Held(exec[h].server.id, exec[h].kind, exec[h].tmdbId,
                        exec[h].title)) = 1

\* C18: the executor never raises: without a paired manager, and after a
\* failure of any of its remote calls other than `already exists', it
\* returns an outcome with success false and an error text
C18_NeverRaises ==
  \A h \in Slots :
    LET E == exec[h]
    IN /\ E.pc # "threw"
       /\ (E.pc # "idle" /\ ~ExecConfigured(E.kind, E.server))
            => /\ E.pc = "returned" /\ E.calls = <<>>
               /\ ~E.outcome.success /\ E.outcome.error # ""
       /\ (\/ E.lookup = "error" \/ E.rootAnswer = "error"
           \/ E.profileAnswer = "error" \/ E.addAnswer = "error")
            => /\ E.pc = "returned"
               /\ ~E.outcome.success /\ E.outcome.error # ""
       /\ E.pc = "returned"
            => (E.outcome.success <=> E.outcome.error = "")

C18_Witness ==
  \E h \in Slots :
    /\ exec[h].pc = "returned"
    /\ exec[h].calls = ExecCalls
    /\ exec[h].addAnswer = "error"
    /\ ~exec[h].outcome.success
    /\ exec[h].outcome.error # ""

\* C19: a create by a requester authorized for direct fulfillment that
\* passed the duplicate guard called the executor once, left a tracked item
\* for its (server, kind, item), created no request, and answered `added',
\* with a warning iff the executor failed
C19_DirectAdd ==
  \A h \in Slots :
    LET H == handlers[h]
    IN (/\ H.op = "create" /\ H.pc = "responded"
        /\ H.passed /\ H.user.canAddDirectly)
       => /\ H.execCalls = 1
          /\ TrackedRows(H.server.id, H.body.contentType, H.body.tmdbId) # {}
          /\ H.inserted = {}
          /\ H.code = 201 /\ H.status = "added"
          /\ H.warning # "" <=> ~exec[h].outcome.success

\* C20: the step in which a create by a requester not authorized for direct
\* fulfillment passes the guard adds one request in state `pending' for
\* (requester, primary server, item, kind), and neither calls the executor
\* nor writes a tracked item
C20_PendingCreated ==
  [][\A h \in Slots :
       (/\ handlers'[h] # handlers[h]
        /\ handlers'[h].op = "create"
        /\ handlers'[h].passed
        /\ ~handlers'[h].user.canAddDirectly)
       => LET H == handlers'[h]
              new == content_requests' \ content_requests
          IN /\ content_requests \subseteq content_requests'
             /\ Cardinality(new) = 1
             /\ \A r \in new :
                  /\ r.user_id = H.user.id
                  /\ r.server_id = H.user.primaryServerId
                  /\ r.tmdb_id = H.body.tmdbId
                  /\ r.content_type = H.body.contentType
                  /\ r.status = "pending"
                  /\ H.inserted = {r.id}
                  /\ \A q \in content_requests : q.id # r.id
             /\ H.pc = "responded" /\ H.code = 201 /\ H.status = "pending"
             /\ H.execCalls = 0
             /\ exec'[h].pc = "idle"
             /\ rss_items' = rss_items
             /\ managers' = managers]_vars

C20_Witness ==
  \E h \in Slots :
    /\ handlers[h].pc = "responded"
    /\ handlers[h].passed
    /\ ~handlers[h].user.canAddDirectly
    /\ handlers[h].status = "pending"
    /\ \E r \in content_requests :
         /\ handlers[h].inserted = {r.id}
         /\ r.status = "pending"
         /\ r.server_id = handlers[h].user.primaryServerId

\* the records of (item, kind, server) that block a create
Blocking(tmdbId, kind, sid) ==
  { r \in content_requests :
      /\ r.tmdb_id = tmdbId /\ r.content_type = kind /\ r.server_id = sid
      /\ r.status \in {"pending", "approved"} }

\* C21: a valid create that reaches its answer or its executor call while a
\* pending or approved record exists for its (item, kind, server) is refused
\* with a conflict, and the step writes no record, no tracked item and
\* starts no executor call; a create for which no such record exists, and
\* which the manager's pre-check does not refuse, passes the guard, whatever
\* records exist for other servers or in state rejected
C21_DuplicateGuard ==
  [][\A h \in DOMAIN handlers :
       LET H == handlers'[h]
           blocked == Blocking(H.body.tmdbId, H.body.contentType,
                               H.server.id) # {}
       IN (/\ H # handlers[h]
           /\ H.op = "create"
           /\ handlers[h].pc # "exec"
           /\ H.pc \in {"responded", "exec"}
           /\ H.server.id # NULL)
          => /\ blocked =>
                  /\ H.pc = "responded" /\ H.code = 409
                  /\ ~H.passed /\ H.execCalls = 0 /\ H.inserted = {}
                  /\ exec'[h].pc = "idle"
                  /\ content_requests' = content_requests
                  /\ rss_items' = rss_items
                  /\ managers' = managers
             /\ (~blocked /\ H.status # "conflict") => H.passed]_vars

C21_Witness ==
  \E h \in DOMAIN handlers :
    LET H == handlers[h]
    IN /\ H.op = "create" /\ H.pc = "responded"
       /\ H.code = 409 /\ H.status = ""
       /\ Blocking(H.body.tmdbId, H.body.contentType, H.server.id) # {}
       /\ \E r \in content_requests :
            /\ r.tmdb_id = H.body.tmdbId
            /\ r.content_type = H.body.contentType
            /\ r.server_id # H.server.id
       /\ rss_items = {}

\* a step in which the approve of handler h, issued by an administrator for
\* a record it found pending, answers
ApproveAnswers(h) ==
  /\ handlers'[h] # handlers[h]
  /\ handlers'[h].op = "approve"
  /\ handlers'[h].pc = "responded"
  /\ handlers'[h].passed

\* the record of the handler's request is approved and stamped by its caller
ApprovedBy(H, table) ==
  \E r \in table :
    /\ r.id = H.request.id
    /\ r.status = "approved"
    /\ r.processed_by = H.user.id
    /\ r.processed_at # <<>>

\* C22: when the approve of a pending record by an administrator answers,
\* the record is approved, stamped with the processor and the time, and a
\* tracked item exists for its (server, kind, item), also when one existed
\* before
C22_ApproveEnds ==
  [][\A h \in DOMAIN handlers :
       ApproveAnswers(h)
       => LET H == handlers'[h]
          IN /\ H.code = 200
             /\ ApprovedBy(H, content_requests')
             /\ \E t \in rss_items' :
                  /\ t.server_id = H.request.server_id
                  /\ t.content_type = H.request.content_type
                  /\ t.tmdb_id = H.request.tmdb_id]_vars

\* C23: when the approve of a pending record answers after its executor call
\* failed, the record is approved and the answer is a success that carries a
\* warning
C23_ApproveWarns ==
  [][\A h \in DOMAIN handlers :
       (ApproveAnswers(h) /\ ~exec[h].outcome.success)
       => LET H == handlers'[h]
          IN /\ H.code = 200
             /\ H.warning # ""
             /\ ApprovedBy(H, content_requests')]_vars

\* C24: an approve or a reject by an administrator that finds its record
\* approved or rejected is refused, and the step changes no record, writes
\* no tracked item and starts no executor call
C24_NonPendingRefused ==
  [][\A h \in DOMAIN handlers :
       LET H == handlers'[h]
       IN (/\ H # handlers[h]
           /\ handlers[h].pc \in {"idle", "responded"}
           /\ H.op \in {"approve", "reject"}
           /\ IsAdmin(H.user)
           /\ RequestById(H.target).status \in {"approved", "rejected"})
          => /\ H.pc = "responded" /\ H.code = 400
             /\ ~H.passed /\ H.execCalls = 0
             /\ exec'[h].pc = "idle"
             /\ content_requests' = content_requests
             /\ rss_items' = rss_items
             /\ managers' = managers]_vars

C24_Witness ==
  \E h \in DOMAIN handlers :
    LET H == handlers[h]
    IN /\ H.op = "approve" /\ H.pc = "responded" /\ H.code = 400
       /\ H.request.status = "rejected"
       /\ H.request.notes = "note"
       /\ H.request \in content_requests

\* C25: no step changes the state of a record that is approved or rejected
C25_TerminalImmutable ==
  [][\A r \in content_requests : \A q \in content_requests' :
       (r.id = q.id /\ r.status \in {"approved", "rejected"})
       => q.status = r.status]_vars

\* C26: a reject by an administrator that finds its record pending sets the
\* record to rejected, stamped with the processor, the time and the notes,
\* leaves every other record as it is, and neither calls the executor nor
\* writes a tracked item
C26_Reject ==
  [][\A h \in DOMAIN handlers :
       LET H == handlers'[h]
           old == RequestById(H.target)
       IN (/\ H # handlers[h]
           /\ handlers[h].pc \in {"idle", "responded"}
           /\ H.op = "reject"
           /\ IsAdmin(H.user)
           /\ old.status = "pending")
          => /\ H.pc = "responded" /\ H.code = 200
             /\ content_requests' =
                  (content_requests \ {old}) \cup
                    {[old EXCEPT !.status = "rejected",
                                 !.processed_by = H.user.id,
                                 !.processed_at = <<now>>,
                                 !.notes = IF H.notes \in {NULL, ""}
                                           THEN NULL ELSE H.notes]}
             /\ H.execCalls = 0
             /\ exec'[h].pc = "idle"
             /\ rss_items' = rss_items
             /\ managers' = managers]_vars

C26_Witness ==
  \E h \in DOMAIN handlers :
    LET H == handlers[h]
    IN /\ H.op = "reject" /\ H.pc = "responded" /\ H.code = 200
       /\ H.notes = "note"
       /\ \E r \in content_requests :
            /\ r.id = H.target
            /\ r.status = "rejected"
            /\ r.processed_by = "a1"
            /\ r.processed_at # <<>>
            /\ r.notes = "note"
       /\ rss_items = {}
       /\ managers = NoManagers

\* C27: a delete removes its record, and only that record, if the caller is
\* an administrator or the record's requester and the record is pending;
\* any other delete is refused and changes no record; no delete calls a
\* manager or writes a tracked item
C27_Delete ==
  [][\A h \in DOMAIN handlers :
       LET H == handlers'[h]
           old == RequestById(H.target)
           allowed == /\ old # NoRow
                      /\ \/ H.user.role = "admin"
                         \/ (old.user_id = H.user.id /\ old.status = "pending")
       IN (/\ H # handlers[h]
           /\ handlers[h].pc \in {"idle", "responded"}
           /\ H.op = "delete")
          => /\ H.pc = "responded"
             /\ IF allowed
                THEN /\ H.code = 200
                     /\ content_requests' = content_requests \ {old}
                ELSE /\ H.code \in {400, 403, 404}
                     /\ content_requests' = content_requests
             /\ H.execCalls = 0
             /\ exec'[h].pc = "idle"
             /\ rss_items' = rss_items
             /\ managers' = managers]_vars

C27_Witness ==
  \E h \in DOMAIN handlers :
    LET H == handlers[h]
    IN /\ H.op = "delete" /\ H.pc = "responded" /\ H.code = 200
       /\ H.user.role = "user"
       /\ H.request.user_id = H.user.id
       /\ H.request.status = "pending"
       /\ RequestById(H.target) = NoRow
       /\ content_requests # {}

\* C30: no two rows of rss_items have the same server, media kind and
\* catalog item
C30_OneTrackedItem ==
  \A r \in rss_items : \A t \in rss_items :
    (/\ r.server_id = t.server_id
     /\ r.content_type = t.content_type
     /\ r.tmdb_id = t.tmdb_id)
    => r.id = t.id

C30_Witness ==
  \E h \in DOMAIN handlers :
    LET H == handlers[h]
    IN /\ H.op = "approve" /\ H.pc = "responded" /\ H.passed
       /\ H.code = 500
       /\ exec[h].pc = "returned"
       /\ Cardinality(TrackedRows(H.request.server_id,
                                  H.request.content_type,
                                  H.request.tmdb_id)) = 1

\* the manager of the server holds the item in its download queue since
\* before the search now answered began
QueuedBefore(sid, tmdbId) ==
  \E n \in 1..Len(managers[sid]["movie"]) :
    LET m == managers[sid]["movie"][n]
    IN /\ m.tmdbId = tmdbId /\ m.queued /\ ~m.hasFile /\ m.monitored
       /\ m.since < searches

\* a search answered after a direct add of an item that the requester had
\* seen as `missing' and that the manager has queued since
AnsweredAfterAdd ==
  /\ probe.fn = "shown" /\ probe.status = "missing"
  /\ AddedDirectly("s1", probe.tmdbId)
  /\ QueuedBefore("s1", probe.tmdbId)
  /\ req.state = "responded" /\ req.code = 200
  /\ req.user.primaryServerId = "s1"

\* the manager checks made for the entry asked the manager and were answered
ManagerAnswered(e) ==
  \A n \in 1..Len(e.availability.arrChecks) :
    e.availability.arrChecks[n].via \notin {"cache", "error"}

\* C28: after a successful direct add of an item whose status was `missing',
\* every search answered after the manager queued the item shows it as
\* `queued'
C28_QueuedAfterAdd ==
  AnsweredAfterAdd
  => \A n \in 1..Len(req.results) :
       req.results[n].id = probe.tmdbId
       => req.results[n].availability.status = "queued"

\* C28, amended: ... shows it as `queued' if no library check found the item
\* and the manager check asked the manager and was answered
C28_QueuedWhenAsked ==
  AnsweredAfterAdd
  => \A n \in 1..Len(req.results) :
       (/\ req.results[n].id = probe.tmdbId
        /\ ~AnyExists(req.results[n])
        /\ ManagerAnswered(req.results[n]))
       => req.results[n].availability.status = "queued"

C28_Witness ==
  /\ AnsweredAfterAdd
  /\ Tracked(req.results[1])
  /\ Len(req.results[1].availability.arrChecks) = 1
  /\ req.results[1].availability.arrChecks[1].via = "remote"
  /\ req.results[1].availability.arrChecks[1].seen.hadEntry
  /\ req.results[1].availability.arrChecks[1].seen.data = "missing"
  /\ req.results[1].availability.status = "queued"

\* the finished runs that wrote an entry under the key
WritersOf(key) == { r \in Writers : runs[r].key = key }

\* C29: under every interleaving of checker runs every cache entry is the
\* whole (data, timestamp) pair that one finished run wrote under that key,
\* and it is the pair written last
C29_CacheRaceSafe ==
  /\ \A key \in DOMAIN availabilityCache :
       \E r \in WritersOf(key) :
         /\ runs[r].pc = "done"
         /\ availabilityCache[key] = runs[r].wrote[1]
         /\ \A q \in WritersOf(key) : runs[q].order <= runs[r].order
  /\ \A r \in Writers : runs[r].key \in DOMAIN availabilityCache

C29_Witness ==
  \E a \in RunIds, b \in RunIds :
    /\ runs[a].key = runs[b].key
    /\ runs[a].wrote # <<>> /\ runs[b].wrote # <<>>
    /\ runs[b].began < runs[a].order
    /\ runs[a].order < runs[b].order
    /\ runs[a].wrote[1].data # runs[b].wrote[1].data
    /\ runs[a].wrote[1].timestamp < runs[b].wrote[1].timestamp
    /\ availabilityCache[runs[b].key] = runs[b].wrote[1]

\* C31: an approve or a reject issued by a user who is not an administrator
\* is refused with 403 and the step changes no record, no tracked item and
\* starts no executor call; every step that takes a record out of `pending'
\* is the step of an approve or a reject issued by an administrator
C31_AdminOnly ==
  [][/\ \A h \in DOMAIN handlers :
          LET H == handlers'[h]
          IN (/\ H # handlers[h]
              /\ handlers[h].pc \in {"idle", "responded"}
              /\ H.op \in {"approve", "reject"}
              /\ H.user.role # "admin")
             => /\ H.pc = "responded" /\ H.code = 403
                /\ ~H.passed /\ H.execCalls = 0
                /\ exec'[h].pc = "idle"
                /\ content_requests' = content_requests
                /\ rss_items' = rss_items
                /\ managers' = managers
     /\ \A r \in content_requests : \A q \in content_requests' :
          (r.id = q.id /\ r.status = "pending" /\ q.status # "pending")
          => \E h \in DOMAIN handlers :
               /\ handlers'[h] # handlers[h]
               /\ handlers'[h].op \in {"approve", "reject"}
               /\ handlers'[h].target = r.id
               /\ handlers'[h].user.role = "admin"
               /\ q.processed_by = handlers'[h].user.id]_vars

C31_Witness ==
  \E h \in DOMAIN handlers :
    LET H == handlers[h]
    IN /\ H.op \in {"approve", "reject"} /\ H.pc = "responded"
       /\ H.code = 403
       /\ H.user.role = "user"
       /\ RequestById(H.target).status = "pending"
       /\ RequestById(H.target).user_id = H.user.id

\* C32: for each (catalog item, media kind, server) at most one record is
\* pending or approved
C32_OneLiveRecord ==
  \A r \in content_requests : \A q \in content_requests :
    (/\ r.tmdb_id = q.tmdb_id
     /\ r.content_type = q.content_type
     /\ r.server_id = q.server_id
     /\ r.status \in {"pending", "approved"}
     /\ q.status \in {"pending", "approved"})
    => r.id = q.id

\* C33: when an approve answers with a success, the record it approved
\* exists and is in state `approved'
C33_ApprovedOnSuccess ==
  [][\A h \in DOMAIN handlers :
       (ApproveAnswers(h) /\ handlers'[h].code = 200)
       => \E r \in content_requests' :
            r.id = handlers'[h].target /\ r.status = "approved"]_vars

\* C34: no two approves have called the executor for the same record
C34_ExecutorOnce ==
  \A h \in DOMAIN handlers : \A g \in DOMAIN handlers :
    (/\ handlers[h].op = "approve" /\ handlers[g].op = "approve"
     /\ handlers[h].target = handlers[g].target
     /\ handlers[h].execCalls > 0 /\ handlers[g].execCalls > 0)
    => h = g

\* the entry of the movie in the list of the manager of the create's server
ReportedMovie(H) ==
  { managers[H.server.id]["movie"][n] :
      n \in Held(H.server.id, "movie", H.body.tmdbId, H.body.title) }

\* C35: when the pre-check call of a movie create is answered and the manager
\* holds the movie with its file, or monitored, the create is refused with a
\* conflict and the step writes no record, no tracked item and starts no
\* executor call, whoever the requester is; when the call fails, or the
\* manager holds the movie without file and unmonitored, the create goes on
\* as it does when the manager does not hold the movie
C35_MoviePrecheck ==
  [][\A h \in DOMAIN handlers :
       LET H == handlers'[h]
           refuses == /\ H.checked = "answered"
                      /\ \E e \in ReportedMovie(H) : e.hasFile \/ e.monitored
           blocked == Blocking(H.body.tmdbId, "movie", H.server.id) # {}
       IN (/\ handlers[h].pc = "precheck"
           /\ H # handlers[h]
           /\ H.body.contentType = "movie")
          => IF refuses
             THEN /\ H.pc = "responded" /\ H.code = 409
                  /\ ~H.passed /\ H.execCalls = 0 /\ H.inserted = {}
                  /\ exec'[h].pc = "idle"
                  /\ content_requests' = content_requests
                  /\ rss_items' = rss_items
                  /\ managers' = managers
             ELSE /\ H.status # "conflict"
                  /\ ~blocked => H.passed
                  /\ (~blocked /\ ~H.user.canAddDirectly)
                       => /\ H.code = 201
                          /\ content_requests' # content_requests
                  /\ (~blocked /\ H.user.canAddDirectly)
                       => H.execCalls = 1 /\ exec'[h].pc # "idle"]_vars

C35_Witness ==
  \E h \in DOMAIN handlers :
    LET H == handlers[h]
    IN /\ H.op = "create" /\ H.pc = "responded" /\ H.code = 409
       /\ H.checked = "answered"
       /\ H.user.canAddDirectly
       /\ \E e \in ReportedMovie(H) : ~e.hasFile /\ e.monitored
       /\ requests = MaxRequests
       /\ content_requests # {}
       /\ rss_items = {}

\* the names of the servers bound to the user of the search
BoundNames ==
  { ServerName(req.user.servers[m]) : m \in 1..Len(req.user.servers) }

\* C36: every entry returned has one of the seven statuses, never `unknown';
\* its library flag is true exactly when its list of library server names is
\* not empty, and the list holds only names of servers bound to the user
C36_StatusSet ==
  LET P(e) ==
        /\ e.availability.status \in Statuses
        /\ e.availability.status # "unknown"
        /\ e.availability.plexAvailable
             <=> Len(e.availability.plexServers) > 0
        /\ \A n \in 1..Len(e.availability.plexServers) :
             e.availability.plexServers[n] \in BoundNames
  IN ForAllEntries(P)

C36_Witness ==
  /\ req.state = "responded" /\ req.code = 200
  /\ Len(req.user.servers) = 2
  /\ Len(req.results) = 1
  /\ Len(req.results[1].availability.plexChecks) = 2
  /\ Len(req.results[1].availability.plexServers) = 1
  /\ req.results[1].availability.plexServers[1] =
       ServerName(req.user.servers[2])
  /\ req.results[1].availability.plexAvailable
  /\ req.results[1].availability.status = "available"

\* the operations of the wizard mounted under /api/setup
SetupOps ==
  {"setup_admin", "setup_tmdb", "setup_server", "setup_complete",
   "setup_test", "setup_restore"}

C38_AdminRemains ==
  [][Admins(users) # {} => Admins(users') # {}]_vars

====
